---- MODULE Spec2Model ----
(***************************************************************************)
(* Model of the bundle lifecycle on one node of upgrade-tool:               *)
(* BundleLoader.Run (internal/bundle_loader.go) and BundleCleaner.Run       *)
(* (internal/bundle_cleaner.go) acting on the node's filesystem, the CRI-O  *)
(* configuration, the ephemeral registry and the node object of the API.    *)
(*                                                                          *)
(* Every call of Run that can fail is one action; its outcome is drawn      *)
(* with \E, so that every early return of the code is a transition.         *)
(* The orchestrator runs one job at a time on a node (spec section 5), so   *)
(* runs do not overlap; between runs the environment may extract a bundle   *)
(* again or reset the labels for the next upgrade cycle.                    *)
(***************************************************************************)
EXTENDS Integers, Sequences, FiniteSets, TLC

\* ------------------------------------------------------------------ bounds

\* Longest images list of a bundle's metadata.
MaxImages == 2

\* ------------------------------------------------------------- constants

\* labels.go: the three state labels of the node.
BundleExtracted == "upgrade-tool/bundle-extracted"
BundleLoaded == "upgrade-tool/bundle-loaded"
BundleCleaned == "upgrade-tool/bundle-cleaned"

LabelNames == {BundleExtracted, BundleLoaded, BundleCleaned}

\* A label is absent from the node's label map, or carries a string.
Absent == "<absent>"

\* Image references: the release image and a payload image.
Refs == {"rel", "a"}

\* Addresses the listener of a registry built at "localhost:0" may get.
Addrs == {"127.0.0.1:41001", "127.0.0.1:41002"}
NoAddr == ""

\* Metadata (unnamed/part_001): only the fields the Loader reads.
ImageLists == UNION {[1..n -> Refs] : n \in 0..MaxImages}
Metadata == [Release : {"rel"}, Images : ImageLists]

\* ------------------------------------------------------------- variables

VARIABLES
  bundleDir,    \* the bundle directory exists
  tmpDir,       \* the "<dir>.tmp" sibling exists
  metadata,     \* content of <dir>/metadata.json
  pinConf,      \* CRI-O pin configuration file
  mirrorConf,   \* CRI-O mirror configuration file
  crioLoaded,   \* configuration the CRI-O service loaded at its last reload
  labels,       \* labels of the node object in the API
  annotation,   \* progress annotation of the node object
  registry,     \* the registry of the current Loader run
  pc,           \* position of the current run inside Run
  who,          \* "none", "loader" or "cleaner": whose run this is
  idx,          \* populateCRIO: index of the loop over refs
  nodeObject,   \* writeResult: labels of the node as fetched by Get
  result,       \* "none" while running, then "ok" (nil) or "err"
  trace,        \* calls made by the current run, in order, with their outcome
  progress,     \* reportProgress calls of the current run, with their outcome
  prev,         \* the run before this one, when nothing happened in between:
                \* the node as a successful Cleaner left it, and whether
                \* Loader runs deleted the bundle and wrote no label
  md,           \* the metadata the current Loader run parsed
  discovery,    \* what "oc adm release info" answers for the version and arch
  found,        \* the release and images the current Creator run discovered
  workDir,      \* the Creator's working directory in the user's cache
  outDir,       \* the output directory: archive, digest and manifest files
  certsDir,     \* the throwaway certificate directory of the copy phase:
                \* "none", "present", "removed", or "left" by a removal
                \* that failed
  builder,      \* a RegistryBuilder: address, root, certificate and key
  reg,          \* the Registry that Build returned
  heap,         \* the bytes of the byte slices that are alive
  caller,       \* the slices the caller of the registry has
  disk,         \* the private directory of the registry and its data root
  task,         \* the function of Start's go statement
  call,         \* the method of the registry in progress, and what the
                \* methods returned
  mdValue,      \* the Metadata value that writeMetadata is given
  mdData,       \* the bytes of the metadata.json it wrote
  mdParsed      \* what readMetadata returned for them

vars == <<bundleDir, tmpDir, metadata, pinConf, mirrorConf, crioLoaded, labels,
          annotation, registry, pc, who, idx, nodeObject, result, trace,
          progress, prev, md, discovery, found, workDir, outDir, certsDir,
          builder, reg, heap, caller, disk, task, call, mdValue, mdData,
          mdParsed>>

fsVars == <<bundleDir, tmpDir, metadata>>
crioVars == <<pinConf, mirrorConf, crioLoaded>>
apiVars == <<labels, annotation>>
nodeVars == <<fsVars, crioVars, apiVars, nodeObject, progress, prev, md>>
creatorVars == <<discovery, found, workDir, outDir, certsDir>>
registryVars == <<builder, reg, heap, caller, disk, task, call>>
jsonVars == <<mdValue, mdData, mdParsed>>

\* --------------------------------------------------------------- helpers

\* strconv.FormatBool, as used by both writeResult functions.
FormatBool(b) == IF b THEN "true" ELSE "false"

NoPin == [present |-> FALSE, refs |-> <<>>]
NoMirror == [present |-> FALSE, addr |-> NoAddr, refs |-> <<>>]
NoRegistry == [state |-> "none", addr |-> NoAddr, tmp |-> FALSE]
NoMetadata == [Release |-> "rel", Images |-> <<>>]

\* A Go slice of strings: nil, or its elements (possibly none).
NilSlice == [nil |-> TRUE, elems |-> <<>>]
Slice(elems) == [nil |-> FALSE, elems |-> elems]

\* The zero Metadata, the bytes of a file that is not there, and the result
\* of a readMetadata that was not called.
ZeroMetadata == [Version |-> "", Arch |-> "", Release |-> "", Images |-> NilSlice]
EmptyObject == [k \in {} |-> ""]
NoData == [present |-> FALSE, whole |-> FALSE, json |-> EmptyObject]
NoParsed == [state |-> "none", result |-> ZeroMetadata]
NoLabels == [n \in LabelNames |-> Absent]

\* A node object, as far as the runs and the annotation of the progress go:
\* its labels and that annotation (<<>> when it has none).
Node(l, a) == [labels |-> l, annotation |-> a]
NoNode == Node(NoLabels, <<>>)

\* The part of the state that outlives a run: filesystem, CRI-O, node object.
NodeState ==
  [bundleDir |-> bundleDir, tmpDir |-> tmpDir, pinConf |-> pinConf,
   mirrorConf |-> mirrorConf, crioLoaded |-> crioLoaded, labels |-> labels,
   annotation |-> annotation]

NoPrev ==
  [cleaned |-> FALSE,
   node |-> [bundleDir |-> FALSE, tmpDir |-> FALSE, pinConf |-> NoPin,
             mirrorConf |-> NoMirror,
             crioLoaded |-> [pin |-> NoPin, mirror |-> NoMirror],
             labels |-> NoLabels, annotation |-> <<>>],
   unlabelled |-> FALSE]

\* One call of a run, as recorded in trace: the operation, its argument and
\* its outcome: "ok", "fault" (the environment made the call fail: an I/O or
\* API error) or "fail" (the call failed because of the state it found).
Ev(op, arg, outcome) == <<op, arg, outcome>>
Op(e) == e[1]
Arg(e) == e[2]
Outcome(e) == e[3]

\* The outcome of a call that fails only when the environment makes it fail.
Faulty == {"ok", "fault"}

\* `err = f(); if err != nil { return err }`, the pattern of both Run
\* functions: the call is recorded and Run goes on to next or returns.
Step(op, arg, outcome, next) ==
  /\ trace' = Append(trace, Ev(op, arg, outcome))
  /\ pc' = IF outcome = "ok" THEN next ELSE "done"
  /\ result' = IF outcome = "ok" THEN "none" ELSE "err"

\* The last call of Run: `return nil` after it, or its error.
LastStep(op, arg, outcome) ==
  /\ trace' = Append(trace, Ev(op, arg, outcome))
  /\ pc' = "done"
  /\ result' = IF outcome = "ok" THEN "ok" ELSE "err"

\* ------------------------------------------------------------ filesystem

\* Faulty variant of RemoveAllOutcomes: os.Remove, which fails on a path that does
\* not exist.
RemoveOutcomes(exists) == IF exists THEN Faulty ELSE {"fail"}

\* os.RemoveAll(path): removes path and what it holds; a path that does not
\* exist is not an error, so the call fails only by a fault of the filesystem.
RemoveAllOutcomes(exists) == Faulty

\* What is left of the path after the call.
RemoveAll(exists, outcome) == IF outcome = "ok" THEN FALSE ELSE exists

\* ---------------------------------------------------- CRI-O tool (CRIOTool)

\* CreatePinConf(refs): the pin entry lists refs.
CreatePinConf(refs) == [present |-> TRUE, refs |-> refs]

\* CreateMirrorConf(addr, refs): the mirror entry sends refs to addr.
CreateMirrorConf(addr, refs) == [present |-> TRUE, addr |-> addr, refs |-> refs]

\* RemoveMirrorConf, RemovePinConf: the entry is gone; removing an absent
\* entry succeeds (spec 4.4: the Cleaner is fully idempotent).
RemoveMirrorConf == NoMirror
RemovePinConf == NoPin

\* ReloadService: the service reads the configuration as it is now.
ReloadService(pin, mirror) == [pin |-> pin, mirror |-> mirror]

\* ------------------------------------------------------- node object (API)

\* Faulty variant of MergeFrom: the whole of upd is sent, as an update does.
MergeFrom_Whole(orig, upd) ==
  [labels |-> upd.labels,
   annotations |-> [k \in {"progress"} |-> upd.annotation]]

\* clnt.MergeFrom(orig) applied to upd: the JSON merge patch holding the
\* labels and annotations of upd that differ from orig (one that is missing
\* in upd is deleted).
MergeFrom(orig, upd) ==
  [labels |->
     [n \in {l \in LabelNames : orig.labels[l] # upd.labels[l]} |->
        upd.labels[n]],
   annotations |->
     [k \in {a \in {"progress"} : orig.annotation # upd.annotation} |->
        upd.annotation]]

\* The API server applying a merge patch to the node as it is now.
ApplyPatch(server, patch) ==
  Node([n \in LabelNames |->
          IF n \in DOMAIN patch.labels THEN patch.labels[n]
          ELSE server.labels[n]],
       IF "progress" \in DOMAIN patch.annotations
         THEN patch.annotations["progress"]
         ELSE server.annotation)

\* fmt.Sprintf of the two progress formats of populateCRIO.
PulledRelease == <<"Pulled release image">>
PulledOf(k, n) == <<"Pulled", k, "of", n, "images">>

\* ------------------------------------------------------------------ Init

Init ==
  /\ bundleDir \in BOOLEAN
  /\ tmpDir \in BOOLEAN
  /\ metadata \in Metadata
  /\ \E stale \in BOOLEAN \X BOOLEAN \X Addrs :
       /\ pinConf = IF stale[1] THEN CreatePinConf(metadata.Images) ELSE NoPin
       /\ mirrorConf = IF stale[2]
                         THEN CreateMirrorConf(stale[3], metadata.Images)
                         ELSE NoMirror
  /\ crioLoaded = ReloadService(pinConf, mirrorConf)
  /\ labels = NoLabels
  /\ annotation = <<>>
  /\ registry = NoRegistry
  /\ pc = "idle"
  /\ who = "none"
  /\ idx = 0
  /\ nodeObject = NoNode
  /\ result = "none"
  /\ trace = <<>>
  /\ progress = <<>>
  /\ prev = NoPrev
  /\ md = NoMetadata
  \* The Creator runs on another machine, and the registry is the Loader's
  \* own (the registry variable): their variables are not used here.
  /\ discovery = <<>>
  /\ found = <<>>
  /\ workDir = <<>>
  /\ outDir = <<>>
  /\ certsDir = "none"
  /\ mdValue = ZeroMetadata
  /\ mdData = NoData
  /\ mdParsed = NoParsed
  /\ builder = <<>>
  /\ reg = <<>>
  /\ heap = <<>>
  /\ caller = <<>>
  /\ disk = <<>>
  /\ task = "none"
  /\ call = <<>>

\* What a run of name that starts now, right after the run that ended, keeps
\* of that run: the node as a successful Cleaner left it; and, for a Loader,
\* that the run before it was one of the Loader that returned an error after
\* it had deleted the bundle directory, or one that followed such a run.
Before(name) ==
  IF pc = "done" /\ who = "cleaner" /\ result = "ok"
    THEN [cleaned |-> TRUE, node |-> NodeState, unlabelled |-> FALSE]
    ELSE [NoPrev EXCEPT
            !.unlabelled =
              /\ name = "loader"
              /\ pc = "done" /\ who = "loader" /\ result = "err"
              /\ \/ \E i \in DOMAIN trace :
                      trace[i] = Ev("deleteBundle", "-", "ok")
                 \/ prev.unlabelled]

\* Faulty variant of Invoke: the run starts in the process of the run before
\* it, where the registry of that run is as it was left.
Invoke_SameProcess(name, first) ==
  /\ pc \in {"idle", "done"}
  /\ who' = name
  /\ pc' = first
  /\ result' = "none"
  /\ trace' = <<>>
  /\ progress' = <<>>
  /\ idx' = 0
  /\ nodeObject' = NoNode
  /\ registry' = registry
  /\ md' = NoMetadata
  /\ prev' = Before(name)
  /\ UNCHANGED <<fsVars, crioVars, apiVars>>

\* Run is invoked: a fresh run starts from the node as it is. A run that
\* starts right after a successful run of the Cleaner, with nothing in
\* between, keeps the node as that run left it in prev.
Invoke(name, first) ==
  /\ pc \in {"idle", "done"}
  /\ who' = name
  /\ pc' = first
  /\ result' = "none"
  /\ trace' = <<>>
  /\ progress' = <<>>
  /\ idx' = 0
  /\ nodeObject' = NoNode
  /\ registry' = NoRegistry
  /\ md' = NoMetadata
  /\ prev' = Before(name)
  /\ UNCHANGED <<fsVars, crioVars, apiVars>>

\* ---------------------------------------------------------- BundleLoader

runVars == <<who, prev>>

LoaderInvoke == Invoke("loader", "checkBundleDir")

\* os.Stat of the bundle directory: nil, ErrNotExist, or another error
\* (which os.Stat can return whether or not the directory is there).
StatOutcomes(exists) == IF exists THEN {"ok", "error"} ELSE {"notexist", "error"}

\* Faulty variant of checkBundleDir: any error of os.Stat means that the
\* directory is not there.
checkBundleDir_ErrorIsAbsent(st) == [exists |-> st = "ok", err |-> FALSE]

\* Faulty variant of checkBundleDir: exists is set before the error is looked at.
checkBundleDir_ExistsFirst(st) == [exists |-> TRUE, err |-> st = "error"]

\* checkBundleDir: ErrNotExist is (false, nil); anything else is exists = true
\* together with the error of os.Stat, nil or not.
checkBundleDir(st) == [exists |-> st # "notexist", err |-> st = "error"]

\* Run, lines 142-149: return the error of the check, or fail when the
\* directory does not exist.
LoaderCheckBundleDir ==
  /\ who = "loader" /\ pc = "checkBundleDir"
  /\ \E st \in StatOutcomes(bundleDir) :
       LET r == checkBundleDir(st)
           outcome == IF r.err THEN "fault" ELSE IF r.exists THEN "ok" ELSE "fail"
       IN Step("checkBundleDir", "-", outcome, "readMetadata")
  /\ UNCHANGED <<fsVars, crioVars, apiVars, registry, idx, nodeObject,
                 progress, md, runVars>>

\* readMetadata: read and parse <dir>/metadata.json.
LoaderReadMetadata ==
  /\ who = "loader" /\ pc = "readMetadata"
  /\ \E outcome \in Faulty :
       /\ Step("readMetadata", "-", outcome, "startRegistry")
       /\ md' = IF outcome = "ok" THEN metadata ELSE md
  /\ UNCHANGED <<fsVars, crioVars, apiVars, registry, idx, nodeObject,
                 progress, runVars>>

\* startRegistry: Build the registry over the bundle directory at
\* "localhost:0", then Start it; the listener gets a port of the system's choice.
LoaderStartRegistry ==
  /\ who = "loader" /\ pc = "startRegistry"
  /\ \E how \in {"build", "start", "ok"}, addr \in Addrs :
       /\ Step("startRegistry", "-", IF how = "ok" THEN "ok" ELSE "fault",
               "CreatePinConf")
       /\ registry' = CASE how = "build" -> NoRegistry
                        [] how = "start" -> [state |-> "built", addr |-> NoAddr, tmp |-> TRUE]
                        [] how = "ok" -> [state |-> "live", addr |-> addr, tmp |-> TRUE]
  /\ UNCHANGED <<fsVars, crioVars, apiVars, idx, nodeObject, progress, md,
                 runVars>>

\* Faulty variant of LoaderCreatePinConf: the release reference is pinned with
\* the images, whether the list has it or not.
LoaderCreatePinConf_WithRelease ==
  /\ who = "loader" /\ pc = "CreatePinConf"
  /\ \E outcome \in Faulty :
       /\ Step("CreatePinConf", "-", outcome, "CreateMirrorConf")
       /\ pinConf' = IF outcome = "ok"
                       THEN CreatePinConf(<<md.Release>> \o md.Images)
                       ELSE pinConf
  /\ UNCHANGED <<fsVars, mirrorConf, crioLoaded, apiVars, registry, idx,
                 nodeObject, progress, md, runVars>>

\* configureCRIO, first call: the pin entry for the metadata's images.
LoaderCreatePinConf ==
  /\ who = "loader" /\ pc = "CreatePinConf"
  /\ \E outcome \in Faulty :
       /\ Step("CreatePinConf", "-", outcome, "CreateMirrorConf")
       /\ pinConf' = IF outcome = "ok" THEN CreatePinConf(md.Images) ELSE pinConf
  /\ UNCHANGED <<fsVars, mirrorConf, crioLoaded, apiVars, registry, idx,
                 nodeObject, progress, md, runVars>>

\* Faulty variant of LoaderCreateMirrorConf: the mirror entry gets the address
\* the registry was configured with, "localhost:0", not the one it is bound to.
LoaderCreateMirrorConf_Configured ==
  /\ who = "loader" /\ pc = "CreateMirrorConf"
  /\ \E outcome \in Faulty :
       /\ Step("CreateMirrorConf", "-", outcome, "ReloadService")
       /\ mirrorConf' = IF outcome = "ok"
                          THEN CreateMirrorConf("localhost:0", md.Images)
                          ELSE mirrorConf
  /\ UNCHANGED <<fsVars, pinConf, crioLoaded, apiVars, registry, idx,
                 nodeObject, progress, md, runVars>>

\* configureCRIO, second call: the mirror entry to registry.Address().
LoaderCreateMirrorConf ==
  /\ who = "loader" /\ pc = "CreateMirrorConf"
  /\ \E outcome \in Faulty :
       /\ Step("CreateMirrorConf", "-", outcome, "ReloadService")
       /\ mirrorConf' = IF outcome = "ok"
                          THEN CreateMirrorConf(registry.addr, md.Images)
                          ELSE mirrorConf
  /\ UNCHANGED <<fsVars, pinConf, crioLoaded, apiVars, registry, idx,
                 nodeObject, progress, md, runVars>>

\* configureCRIO, last call: reload the service.
LoaderConfigureReload ==
  /\ who = "loader" /\ pc = "ReloadService"
  /\ \E outcome \in Faulty :
       /\ Step("ReloadService", "-", outcome, "PullRelease")
       /\ crioLoaded' = IF outcome = "ok"
                          THEN ReloadService(pinConf, mirrorConf)
                          ELSE crioLoaded
  /\ UNCHANGED <<fsVars, pinConf, mirrorConf, apiVars, registry, idx,
                 nodeObject, progress, md, runVars>>

\* reportProgress(text): patch the progress annotation; an error of the
\* patch is logged and reportProgress returns nothing.
reportProgress(text) ==
  \E ok \in BOOLEAN :
    /\ annotation' = IF ok THEN text ELSE annotation
    /\ progress' = Append(progress, [text |-> text, ok |-> ok])
    /\ labels' = labels

\* populateCRIO: where the loop over refs stands after i iterations.
LoopOrExit(i) == IF i < Len(md.Images) THEN "PullImage" ELSE "RemoveMirrorConf"

\* Faulty variant of LoaderPullRelease: the error of the pull is logged, not returned.
LoaderPullRelease_ErrorIgnored ==
  /\ who = "loader" /\ pc = "PullRelease"
  /\ \E outcome \in Faulty :
       /\ trace' = Append(trace, Ev("PullImage", md.Release, outcome))
       /\ pc' = "ReportRelease"
       /\ result' = "none"
  /\ UNCHANGED <<fsVars, crioVars, apiVars, registry, idx, nodeObject,
                 progress, md, runVars>>

\* populateCRIO, lines 248-252: pull the release image.
LoaderPullRelease ==
  /\ who = "loader" /\ pc = "PullRelease"
  /\ \E outcome \in Faulty :
       Step("PullImage", md.Release, outcome, "ReportRelease")
  /\ UNCHANGED <<fsVars, crioVars, apiVars, registry, idx, nodeObject,
                 progress, md, runVars>>

\* Faulty variant of LoaderReportRelease: reportProgress returns the error of the
\* patch and populateCRIO returns it.
LoaderReportRelease_ErrorReturned ==
  /\ who = "loader" /\ pc = "ReportRelease"
  /\ \E ok \in BOOLEAN :
       /\ annotation' = IF ok THEN PulledRelease ELSE annotation
       /\ progress' = Append(progress, [text |-> PulledRelease, ok |-> ok])
       /\ pc' = IF ok THEN LoopOrExit(0) ELSE "done"
       /\ result' = IF ok THEN result ELSE "err"
  /\ UNCHANGED <<fsVars, crioVars, labels, registry, idx, nodeObject, trace,
                 md, runVars>>

\* populateCRIO, line 253: report the pull of the release image.
LoaderReportRelease ==
  /\ who = "loader" /\ pc = "ReportRelease"
  /\ reportProgress(PulledRelease)
  /\ pc' = LoopOrExit(0)
  /\ UNCHANGED <<fsVars, crioVars, registry, idx, nodeObject, result, trace,
                 md, runVars>>

\* Faulty variant of LoaderPullImage: a failed pull is skipped (continue) and the loop
\* goes on with the next image.
LoaderPullImage_ContinueOnError ==
  /\ who = "loader" /\ pc = "PullImage"
  /\ \E outcome \in Faulty :
       /\ trace' = Append(trace, Ev("PullImage", md.Images[idx + 1], outcome))
       /\ pc' = IF outcome = "ok" THEN "ReportImage" ELSE LoopOrExit(idx + 1)
       /\ idx' = IF outcome = "ok" THEN idx ELSE idx + 1
       /\ result' = "none"
  /\ UNCHANGED <<fsVars, crioVars, apiVars, registry, nodeObject, progress,
                 md, runVars>>

\* Faulty variant of LoaderPullImage: a failed pull is cleaned up after, the
\* mirror entry removed and the registry stopped, before its error is
\* returned.
LoaderPullImage_Undo ==
  /\ who = "loader" /\ pc = "PullImage"
  /\ \E outcome \in Faulty :
       /\ Step("PullImage", md.Images[idx + 1], outcome, "ReportImage")
       /\ mirrorConf' = IF outcome = "ok" THEN mirrorConf ELSE RemoveMirrorConf
       /\ registry' = IF outcome = "ok" THEN registry
                      ELSE [registry EXCEPT !.state = "stopped", !.tmp = FALSE]
  /\ UNCHANGED <<fsVars, pinConf, crioLoaded, apiVars, idx, nodeObject,
                 progress, md, runVars>>

\* Faulty variant of LoaderPullImage: a failed pull is tried again.
LoaderPullImage_Retry ==
  /\ who = "loader" /\ pc = "PullImage"
  /\ \E outcome \in Faulty :
       /\ trace' = Append(trace, Ev("PullImage", md.Images[idx + 1], outcome))
       /\ pc' = IF outcome = "ok" THEN "ReportImage" ELSE "PullImage"
       /\ result' = "none"
  /\ UNCHANGED <<fsVars, crioVars, apiVars, registry, idx, nodeObject,
                 progress, md, runVars>>

\* populateCRIO, lines 256-260: pull refs[i], return its error.
LoaderPullImage ==
  /\ who = "loader" /\ pc = "PullImage"
  /\ \E outcome \in Faulty :
       Step("PullImage", md.Images[idx + 1], outcome, "ReportImage")
  /\ UNCHANGED <<fsVars, crioVars, apiVars, registry, idx, nodeObject,
                 progress, md, runVars>>

\* Faulty variant of LoaderReportImage: the loop index is reported as it is (i of n).
LoaderReportImage_ZeroBased ==
  /\ who = "loader" /\ pc = "ReportImage"
  /\ reportProgress(PulledOf(idx, Len(md.Images)))
  /\ idx' = idx + 1
  /\ pc' = LoopOrExit(idx + 1)
  /\ UNCHANGED <<fsVars, crioVars, registry, nodeObject, result, trace, md,
                 runVars>>

\* populateCRIO, line 261: report "Pulled i+1 of len(refs) images", then the
\* next iteration.
LoaderReportImage ==
  /\ who = "loader" /\ pc = "ReportImage"
  /\ reportProgress(PulledOf(idx + 1, Len(md.Images)))
  /\ idx' = idx + 1
  /\ pc' = LoopOrExit(idx + 1)
  /\ UNCHANGED <<fsVars, crioVars, registry, nodeObject, result, trace, md,
                 runVars>>

\* Faulty variant of LoaderRemoveMirrorConf: the pin entry is removed with the mirror.
LoaderRemoveMirrorConf_AndPin ==
  /\ who = "loader" /\ pc = "RemoveMirrorConf"
  /\ \E outcome \in Faulty :
       /\ Step("RemoveMirrorConf", "-", outcome, "ReloadService2")
       /\ mirrorConf' = IF outcome = "ok" THEN RemoveMirrorConf ELSE mirrorConf
       /\ pinConf' = IF outcome = "ok" THEN RemovePinConf ELSE pinConf
  /\ UNCHANGED <<fsVars, crioLoaded, apiVars, registry, idx, nodeObject,
                 progress, md, runVars>>

\* deconfigureCRIO, first call: remove the mirror entry, keep the pin entry.
LoaderRemoveMirrorConf ==
  /\ who = "loader" /\ pc = "RemoveMirrorConf"
  /\ \E outcome \in Faulty :
       /\ Step("RemoveMirrorConf", "-", outcome, "ReloadService2")
       /\ mirrorConf' = IF outcome = "ok" THEN RemoveMirrorConf ELSE mirrorConf
  /\ UNCHANGED <<fsVars, pinConf, crioLoaded, apiVars, registry, idx,
                 nodeObject, progress, md, runVars>>

\* deconfigureCRIO, last call: reload the service.
LoaderDeconfigureReload ==
  /\ who = "loader" /\ pc = "ReloadService2"
  /\ \E outcome \in Faulty :
       /\ Step("ReloadService", "-", outcome, "Stop")
       /\ crioLoaded' = IF outcome = "ok"
                          THEN ReloadService(pinConf, mirrorConf)
                          ELSE crioLoaded
  /\ UNCHANGED <<fsVars, pinConf, mirrorConf, apiVars, registry, idx,
                 nodeObject, progress, md, runVars>>

\* Faulty variant of LoaderStopRegistry: the error of Stop is logged and the
\* run goes on.
LoaderStopRegistry_ErrorIgnored ==
  /\ who = "loader" /\ pc = "Stop"
  /\ \E how \in {"shutdown", "removeAll", "ok"} :
       /\ trace' = Append(trace, Ev("Stop", "-",
                                    IF how = "ok" THEN "ok" ELSE "fault"))
       /\ pc' = "deleteBundle"
       /\ result' = "none"
       /\ registry' = CASE how = "shutdown" -> registry
                        [] how = "removeAll" -> [registry EXCEPT !.state = "stopped"]
                        [] how = "ok" -> [registry EXCEPT !.state = "stopped",
                                                          !.tmp = FALSE]
  /\ UNCHANGED <<fsVars, crioVars, apiVars, idx, nodeObject, progress, md,
                 runVars>>

\* registry.Stop: shut the server down, then remove the registry's temporary
\* directory; either can fail.
LoaderStopRegistry ==
  /\ who = "loader" /\ pc = "Stop"
  /\ \E how \in {"shutdown", "removeAll", "ok"} :
       /\ Step("Stop", "-", IF how = "ok" THEN "ok" ELSE "fault", "deleteBundle")
       /\ registry' = CASE how = "shutdown" -> registry
                        [] how = "removeAll" -> [registry EXCEPT !.state = "stopped"]
                        [] how = "ok" -> [registry EXCEPT !.state = "stopped",
                                                          !.tmp = FALSE]
  /\ UNCHANGED <<fsVars, crioVars, apiVars, idx, nodeObject, progress, md,
                 runVars>>

\* Faulty variant of LoaderDeleteBundle: the error of os.RemoveAll is dropped.
LoaderDeleteBundle_ErrorIgnored ==
  /\ who = "loader" /\ pc = "deleteBundle"
  /\ \E outcome \in RemoveAllOutcomes(bundleDir) :
       /\ trace' = Append(trace, Ev("deleteBundle", "-", outcome))
       /\ pc' = "Get"
       /\ result' = "none"
       /\ bundleDir' = RemoveAll(bundleDir, outcome)
  /\ UNCHANGED <<tmpDir, metadata, crioVars, apiVars, registry, idx,
                 nodeObject, progress, md, runVars>>

\* deleteBundle: os.RemoveAll of the bundle directory.
LoaderDeleteBundle ==
  /\ who = "loader" /\ pc = "deleteBundle"
  /\ \E outcome \in RemoveAllOutcomes(bundleDir) :
       /\ Step("deleteBundle", "-", outcome, "Get")
       /\ bundleDir' = RemoveAll(bundleDir, outcome)
  /\ UNCHANGED <<tmpDir, metadata, crioVars, apiVars, registry, idx,
                 nodeObject, progress, md, runVars>>

\* writeResult, lines 323-331: fetch the node.
LoaderGetNode ==
  /\ who = "loader" /\ pc = "Get"
  /\ \E outcome \in Faulty :
       /\ Step("Get", "-", outcome, "Patch")
       /\ nodeObject' = IF outcome = "ok" THEN Node(labels, annotation)
                       ELSE nodeObject
  /\ UNCHANGED <<fsVars, crioVars, apiVars, registry, idx, progress, md,
                 runVars>>

\* Faulty variant of LoaderWriteLabel: the labels of the copy are always a fresh map.
LoaderWriteLabel_FreshMap(obj) ==
  [obj EXCEPT !.labels = [NoLabels EXCEPT ![BundleLoaded] = FormatBool(TRUE)]]

\* writeResult, lines 333-344: set the label on a copy of the fetched node
\* and send the merge patch from the fetched node to the copy.
LoaderWriteLabel(obj) ==
  [obj EXCEPT !.labels[BundleLoaded] = FormatBool(TRUE)]

LoaderPatchNode ==
  /\ who = "loader" /\ pc = "Patch"
  /\ \E outcome \in Faulty :
       /\ LastStep("Patch", BundleLoaded, outcome)
       /\ LET node == IF outcome = "ok"
                        THEN ApplyPatch(Node(labels, annotation),
                                        MergeFrom(nodeObject,
                                                  LoaderWriteLabel(nodeObject)))
                        ELSE Node(labels, annotation)
          IN /\ labels' = node.labels
             /\ annotation' = node.annotation
  /\ UNCHANGED <<fsVars, crioVars, registry, idx, nodeObject, progress, md,
                 runVars>>

LoaderStep ==
  \/ LoaderCheckBundleDir
  \/ LoaderReadMetadata
  \/ LoaderStartRegistry
  \/ LoaderCreatePinConf
  \/ LoaderCreateMirrorConf
  \/ LoaderConfigureReload
  \/ LoaderPullRelease
  \/ LoaderReportRelease
  \/ LoaderPullImage
  \/ LoaderReportImage
  \/ LoaderRemoveMirrorConf
  \/ LoaderDeconfigureReload
  \/ LoaderStopRegistry
  \/ LoaderDeleteBundle
  \/ LoaderGetNode
  \/ LoaderPatchNode

\* --------------------------------------------------------- BundleCleaner

CleanerInvoke == Invoke("cleaner", "RemoveAllDir")

\* cleanBundleDir, lines 162-170: remove the bundle directory.
CleanerRemoveBundleDir ==
  /\ who = "cleaner" /\ pc = "RemoveAllDir"
  /\ \E outcome \in RemoveAllOutcomes(bundleDir) :
       /\ Step("RemoveAll", "dir", outcome, "RemoveAllTmp")
       /\ bundleDir' = RemoveAll(bundleDir, outcome)
  /\ UNCHANGED <<tmpDir, metadata, crioVars, apiVars, registry, idx,
                 nodeObject, progress, md, runVars>>

\* cleanBundleDir, lines 171-180: remove "<dir>.tmp".
CleanerRemoveTmpDir ==
  /\ who = "cleaner" /\ pc = "RemoveAllTmp"
  /\ \E outcome \in RemoveAllOutcomes(tmpDir) :
       /\ Step("RemoveAll", "tmp", outcome, "RemoveMirrorConf")
       /\ tmpDir' = RemoveAll(tmpDir, outcome)
  /\ UNCHANGED <<bundleDir, metadata, crioVars, apiVars, registry, idx,
                 nodeObject, progress, md, runVars>>

\* Faulty variant of CleanerRemoveMirrorConf: the error of the removal is
\* logged and cleanCRIO goes on.
CleanerRemoveMirrorConf_ErrorIgnored ==
  /\ who = "cleaner" /\ pc = "RemoveMirrorConf"
  /\ \E outcome \in Faulty :
       /\ trace' = Append(trace, Ev("RemoveMirrorConf", "-", outcome))
       /\ pc' = "RemovePinConf"
       /\ result' = "none"
       /\ mirrorConf' = IF outcome = "ok" THEN RemoveMirrorConf ELSE mirrorConf
  /\ UNCHANGED <<fsVars, pinConf, crioLoaded, apiVars, registry, idx,
                 nodeObject, progress, md, runVars>>

\* cleanCRIO, first call: remove the mirror entry.
CleanerRemoveMirrorConf ==
  /\ who = "cleaner" /\ pc = "RemoveMirrorConf"
  /\ \E outcome \in Faulty :
       /\ Step("RemoveMirrorConf", "-", outcome, "RemovePinConf")
       /\ mirrorConf' = IF outcome = "ok" THEN RemoveMirrorConf ELSE mirrorConf
  /\ UNCHANGED <<fsVars, pinConf, crioLoaded, apiVars, registry, idx,
                 nodeObject, progress, md, runVars>>

\* cleanCRIO, second call: remove the pin entry.
CleanerRemovePinConf ==
  /\ who = "cleaner" /\ pc = "RemovePinConf"
  /\ \E outcome \in Faulty :
       /\ Step("RemovePinConf", "-", outcome, "ReloadService")
       /\ pinConf' = IF outcome = "ok" THEN RemovePinConf ELSE pinConf
  /\ UNCHANGED <<fsVars, mirrorConf, crioLoaded, apiVars, registry, idx,
                 nodeObject, progress, md, runVars>>

\* cleanCRIO, last call: reload the service.
CleanerReload ==
  /\ who = "cleaner" /\ pc = "ReloadService"
  /\ \E outcome \in Faulty :
       /\ Step("ReloadService", "-", outcome, "Get")
       /\ crioLoaded' = IF outcome = "ok"
                          THEN ReloadService(pinConf, mirrorConf)
                          ELSE crioLoaded
  /\ UNCHANGED <<fsVars, pinConf, mirrorConf, apiVars, registry, idx,
                 nodeObject, progress, md, runVars>>

\* writeResult, lines 207-215: fetch the node.
CleanerGetNode ==
  /\ who = "cleaner" /\ pc = "Get"
  /\ \E outcome \in Faulty :
       /\ Step("Get", "-", outcome, "Patch")
       /\ nodeObject' = IF outcome = "ok" THEN Node(labels, annotation)
                       ELSE nodeObject
  /\ UNCHANGED <<fsVars, crioVars, apiVars, registry, idx, progress, md,
                 runVars>>

\* Faulty variant of CleanerWriteLabel: the label of the Loader, copied with the code.
CleanerWriteLabel_Loaded(obj) ==
  [obj EXCEPT !.labels[BundleLoaded] = FormatBool(TRUE)]

\* writeResult, lines 217-228: set the label on a copy of the fetched node
\* and send the merge patch from the fetched node to the copy.
CleanerWriteLabel(obj) ==
  [obj EXCEPT !.labels[BundleCleaned] = FormatBool(TRUE)]

CleanerPatchNode ==
  /\ who = "cleaner" /\ pc = "Patch"
  /\ \E outcome \in Faulty :
       /\ LastStep("Patch", BundleCleaned, outcome)
       /\ LET node == IF outcome = "ok"
                        THEN ApplyPatch(Node(labels, annotation),
                                        MergeFrom(nodeObject,
                                                  CleanerWriteLabel(nodeObject)))
                        ELSE Node(labels, annotation)
          IN /\ labels' = node.labels
             /\ annotation' = node.annotation
  /\ UNCHANGED <<fsVars, crioVars, registry, idx, nodeObject, progress, md,
                 runVars>>

CleanerStep ==
  \/ CleanerRemoveBundleDir
  \/ CleanerRemoveTmpDir
  \/ CleanerRemoveMirrorConf
  \/ CleanerRemovePinConf
  \/ CleanerReload
  \/ CleanerGetNode
  \/ CleanerPatchNode

\* ----------------------------------------------------------- environment

\* Between runs the process of the last run is gone: what the next run finds
\* is the node alone.
BetweenRuns ==
  /\ pc \in {"idle", "done"}
  /\ pc' = "idle"
  /\ who' = "none"
  /\ result' = "none"
  /\ trace' = <<>>
  /\ progress' = <<>>
  /\ idx' = 0
  /\ nodeObject' = NoNode
  /\ registry' = NoRegistry
  /\ md' = NoMetadata
  /\ prev' = NoPrev

\* The bundle extractor (another job of the node; the archive of an upgrade
\* is the same every time it is extracted): it unpacks the archive in
\* "<dir>.tmp", renames it to the bundle directory and sets bundle-extracted;
\* an extraction that stops half-way leaves "<dir>.tmp".
Extract ==
  /\ BetweenRuns
  /\ \E complete \in BOOLEAN :
       IF complete
         THEN /\ bundleDir' = TRUE
              /\ tmpDir' = FALSE
              /\ labels' = [labels EXCEPT ![BundleExtracted] = "true"]
         ELSE /\ tmpDir' = TRUE
              /\ UNCHANGED <<bundleDir, labels>>
  /\ UNCHANGED <<metadata, crioVars, annotation>>

\* The controller starting another upgrade cycle removes a state label.
ResetLabel ==
  /\ BetweenRuns
  /\ \E n \in LabelNames :
       /\ labels[n] # Absent
       /\ labels' = [labels EXCEPT ![n] = Absent]
  /\ UNCHANGED <<fsVars, crioVars, annotation>>

\* ------------------------------------------------------------------ Spec

Next ==
  \/ LoaderInvoke /\ UNCHANGED <<creatorVars, registryVars, jsonVars>>
  \/ LoaderStep /\ UNCHANGED <<creatorVars, registryVars, jsonVars>>
  \/ CleanerInvoke /\ UNCHANGED <<creatorVars, registryVars, jsonVars>>
  \/ CleanerStep /\ UNCHANGED <<creatorVars, registryVars, jsonVars>>
  \/ Extract /\ UNCHANGED <<creatorVars, registryVars, jsonVars>>
  \/ ResetLabel /\ UNCHANGED <<creatorVars, registryVars, jsonVars>>

Spec == Init /\ [][Next]_vars

\* Another writer of the node object (the controller, another job, an
\* operator) acts between the Get and the Patch of a writeResult: it sets or
\* removes a label, or sets or removes the annotation.
OtherWriter ==
  /\ who \in {"loader", "cleaner"}
  /\ pc = "Patch"
  /\ \/ /\ \E n \in LabelNames, v \in {Absent, "true"} :
             /\ labels[n] # v
             /\ labels' = [labels EXCEPT ![n] = v]
        /\ UNCHANGED annotation
     \/ /\ \E a \in {<<>>, <<"other">>} :
             /\ annotation # a
             /\ annotation' = a
        /\ UNCHANGED labels
  /\ UNCHANGED <<fsVars, crioVars, registry, pc, who, idx, nodeObject, result,
                 trace, progress, prev, md>>

\* The runs on a node whose object has other writers.
WriterNext ==
  \/ Next
  \/ OtherWriter /\ UNCHANGED <<creatorVars, registryVars, jsonVars>>

WriterSpec == Init /\ [][WriterNext]_vars

\* ========================================================= BundleCreator

\* The largest number of tags a release has here.
MaxTags == 2

\* The tag names of a release, in the order of their names: slices.Sort
\* orders an i-th name before a j-th name exactly when i < j.
Tags == 1..MaxTags

\* An image reference, as the reference package parses it: the domain, the
\* path of the repository, the tag and the digest (algorithm and hex). A
\* reference without a domain is not a named reference.
Ref(domain, path, tag, digest) ==
  [domain |-> domain, path |-> path, tag |-> tag, digest |-> digest]

NoDigest == <<>>
NoRef == Ref("", "", "", NoDigest)

\* The references the tags of a release may point to: one by digest, one with
\* a tag and a digest, and one that ParseNamed rejects.
Sources ==
  { Ref("quay.io", "ocp/a", "", <<"sha256", "0a">>),
    Ref("quay.io", "ocp/b", "v1", <<"sha256", "0b">>),
    Ref("", "OCP/Bad", "", NoDigest) }

bundleCreatorReleaseRepo == [domain |-> "quay.io", path |-> "ocp-release"]

\* The digests "oc adm release info" may report for the release.
ReleaseDigests == { <<"sha256", "0d">>, <<"sha256", "0e">> }

\* The address of the Creator's registry, "localhost:5001", once bound.
CreatorAddr == "127.0.0.1:5001"

\* What release discovery answers: the digest of the release and the
\* reference of each of its tags.
Discoveries ==
  UNION { [digest : ReleaseDigests, images : [T -> Sources]] :
          T \in SUBSET Tags }

NoFound == [release |-> NoRef, images |-> <<>>]

\* A file: whether it exists, and its content. The empty contents are those
\* of a file that was created or truncated and not written.
File(content) == [present |-> TRUE, content |-> content]
NoFile(empty) == [present |-> FALSE, content |-> empty]
EmptyMetadata == [Release |-> NoRef, Images |-> <<>>]
EmptyTar == [metadata |-> EmptyMetadata, docker |-> {}]
EmptyDigest == [sum |-> <<>>, name |-> ""]

\* The working directory: metadata.json and the tree of the registry, as the
\* set of the images it stores. The output directory: the three files.
NoWorkDir ==
  [exists |-> FALSE, metadata |-> NoFile(EmptyMetadata), docker |-> {}]
NoOutDir ==
  [bundle |-> NoFile(EmptyTar), digest |-> NoFile(EmptyDigest),
   manifest |-> FALSE]

\* maps.Keys and maps.Values: the keys and the values of a map, in the order
\* the iteration over the map happens to take.
Orders(S) ==
  { o \in [1..Cardinality(S) -> S] : \A x \in S : \E i \in DOMAIN o : o[i] = x }
Keys(m) == Orders(DOMAIN m)
Values(m) == { [i \in DOMAIN o |-> m[o[i]]] : o \in Keys(m) }

\* slices.Sort.
RECURSIVE Sort(_)
Sort(s) ==
  IF s = <<>> THEN <<>>
  ELSE LET least == CHOOSE i \in DOMAIN s : \A j \in DOMAIN s : s[i] <= s[j]
       IN <<s[least]>> \o
          Sort([i \in 1..(Len(s) - 1) |-> IF i < least THEN s[i] ELSE s[i + 1]])

\* reference.ParseNamed: an error for a reference without a domain.
ParseNamed(ref) == ref.domain # ""

\* digest.Hex.
Hex(digest) == digest[2]

\* Faulty variant of dstRef: the digest is looked at before the tag.
dstRef_DigestFirst(addr, ref) ==
  Ref(addr, ref.path,
      IF ref.digest # NoDigest THEN Hex(ref.digest)
      ELSE IF ref.tag # "" THEN ref.tag ELSE "",
      NoDigest)

\* dstRef: the reference of an image in the local registry: the address of the
\* registry, the path of the source, and its tag or else the hex of its digest.
dstRef(addr, ref) ==
  Ref(addr, ref.path,
      IF ref.tag # "" THEN ref.tag
      ELSE IF ref.digest # NoDigest THEN Hex(ref.digest) ELSE "",
      NoDigest)

\* The reference findImages asks "oc adm release info" about: the repository
\* of the releases with the tag "<version>-<arch>".
releaseQuery ==
  Ref(bundleCreatorReleaseRepo.domain, bundleCreatorReleaseRepo.path,
      "version-arch", NoDigest)

\* Faulty variant of findImages: the release stays the reference of the query.
findImages_TagForm(d) == [release |-> releaseQuery, images |-> d.images]

\* findImages: the release by the digest that was reported, and the images.
findImages(d) ==
  [release |-> Ref(bundleCreatorReleaseRepo.domain,
                   bundleCreatorReleaseRepo.path, "", d.digest),
   images |-> d.images]

\* sha256 of the bytes of a file.
Sha256(content) == <<"sha256", content>>

\* What "tar" writes for a working directory: metadata.json and the tree.
Tar(dir) == [metadata |-> dir.metadata.content, docker |-> dir.docker]

\* Faulty variant of CreatorCall: the error is reported and Run goes on.
CreatorCall_GoesOn(op, outcome, next) ==
  /\ trace' = Append(trace, Ev(op, NoRef, outcome))
  /\ pc' = next
  /\ result' = "none"
  /\ UNCHANGED <<who, discovery>>

\* A call of Run that is recorded: Run goes on, or exits with exit.Error(1).
CreatorCall(op, outcome, next) ==
  /\ Step(op, NoRef, outcome, next)
  /\ UNCHANGED <<who, discovery>>

CreatorInvoke ==
  /\ Invoke("creator", "UserCacheDir")
  /\ found' = NoFound
  /\ certsDir' = "none"
  /\ UNCHANGED <<discovery, workDir, outDir>>

\* os.UserCacheDir.
CreatorUserCacheDir ==
  /\ who = "creator" /\ pc = "UserCacheDir"
  /\ \E o \in Faulty : CreatorCall("UserCacheDir", o, "createDir")
  /\ UNCHANGED <<idx, registry, found, workDir, outDir, certsDir>>

\* createDir: os.MkdirAll; a directory that exists already is no error.
CreatorCreateDir ==
  /\ who = "creator" /\ pc = "createDir"
  /\ \E o \in Faulty :
       /\ CreatorCall("createDir", o, "findImages")
       /\ workDir' = IF o = "ok" THEN [workDir EXCEPT !.exists = TRUE]
                     ELSE workDir
  /\ UNCHANGED <<idx, registry, found, outDir, certsDir>>

\* findImages: "oc adm release info" and the two jq queries. Its results are
\* named: when "oc" or the query of the digest fails it returns the reference
\* of the query as the release, when the query of the tags fails the release
\* by digest, both times with a nil map and the error.
CreatorFindImages ==
  /\ who = "creator" /\ pc = "findImages"
  /\ \E how \in {"ok", "oc", "tags"} :
       /\ CreatorCall("findImages", IF how = "ok" THEN "ok" ELSE "fault",
                      "createRegistry")
       /\ found' = CASE how = "ok" -> findImages(discovery)
                     [] how = "oc" -> [NoFound EXCEPT !.release = releaseQuery]
                     [] how = "tags" ->
                          [NoFound EXCEPT
                             !.release = findImages(discovery).release]
  /\ UNCHANGED <<idx, registry, workDir, outDir, certsDir>>

\* createRegistry: Build, which makes the private directory of the registry,
\* then Start.
CreatorCreateRegistry ==
  /\ who = "creator" /\ pc = "createRegistry"
  /\ \E o \in {"ok", "fault", "fail"} :
       /\ CreatorCall("createRegistry", o, "MkdirTemp")
       /\ registry' = CASE o = "ok" ->
                            [state |-> "live", addr |-> CreatorAddr, tmp |-> TRUE]
                        [] o = "fail" ->
                            [state |-> "built", addr |-> NoAddr, tmp |-> TRUE]
                        [] OTHER -> registry
  /\ UNCHANGED <<idx, found, workDir, outDir, certsDir>>

\* Faulty variant of DownloadReturns: nothing is deferred.
DownloadReturns_NoDefer == certsDir' = certsDir

\* downloadImages returns: the deferred os.RemoveAll of the throwaway
\* directory runs, and its error is only logged.
DownloadReturns ==
  \E removed \in Faulty :
    certsDir' = IF removed = "ok" THEN "removed" ELSE "left"

\* downloadImages: os.MkdirTemp for the certificate of the registry.
CreatorMkdirTemp ==
  /\ who = "creator" /\ pc = "MkdirTemp"
  /\ \E o \in Faulty :
       /\ CreatorCall("MkdirTemp", o, "WriteFile")
       /\ certsDir' = IF o = "ok" THEN "present" ELSE "none"
  /\ UNCHANGED <<idx, registry, found, workDir, outDir>>

\* downloadImages: os.WriteFile of tls.crt.
CreatorWriteFile ==
  /\ who = "creator" /\ pc = "WriteFile"
  /\ \E o \in Faulty :
       /\ CreatorCall("WriteFile", o, "copyRelease")
       /\ IF o = "ok" THEN UNCHANGED certsDir ELSE DownloadReturns
  /\ UNCHANGED <<idx, registry, found, workDir, outDir>>

\* Faulty variant of Copy: a copy that fails is logged and the phase goes on.
Copy_ContinueOnError(src, last) ==
  IF ~ParseNamed(src)
    THEN /\ Step("dstRef", src, "fail", "done")
         /\ DownloadReturns
         /\ UNCHANGED workDir
    ELSE \E o \in Faulty :
           /\ trace' = Append(trace, Ev("downloadImage", src, o))
           /\ pc' = IF last THEN "Stop" ELSE "copyImage"
           /\ result' = "none"
           /\ workDir' = IF o = "ok"
                           THEN [workDir EXCEPT !.docker =
                                   @ \cup {dstRef(registry.addr, src)}]
                           ELSE workDir
           /\ IF last THEN DownloadReturns ELSE UNCHANGED certsDir

\* Faulty variant of Copy: when a copy fails, what the registry has stored so
\* far is removed from the working directory.
Copy_CleanUp(src, last) ==
  IF ~ParseNamed(src)
    THEN /\ Step("dstRef", src, "fail", "done")
         /\ DownloadReturns
         /\ workDir' = [workDir EXCEPT !.docker = {}]
    ELSE \E o \in Faulty :
           /\ Step("downloadImage", src, o,
                   IF last THEN "Stop" ELSE "copyImage")
           /\ IF o = "ok"
                THEN /\ workDir' =
                          [workDir EXCEPT !.docker =
                             @ \cup {dstRef(registry.addr, src)}]
                     /\ IF last THEN DownloadReturns
                        ELSE UNCHANGED certsDir
                ELSE /\ DownloadReturns
                     /\ workDir' = [workDir EXCEPT !.docker = {}]

\* One copy of downloadImages: dstRef, then downloadImage, that is "skopeo
\* copy" of src into the local registry. After the last one the phase
\* returns nil.
Copy(src, last) ==
  IF ~ParseNamed(src)
    THEN /\ Step("dstRef", src, "fail", "done")
         /\ DownloadReturns
         /\ UNCHANGED workDir
    ELSE \E o \in Faulty :
           /\ Step("downloadImage", src, o,
                   IF last THEN "Stop" ELSE "copyImage")
           /\ IF o = "ok"
                THEN /\ workDir' =
                          [workDir EXCEPT !.docker =
                             @ \cup {dstRef(registry.addr, src)}]
                     /\ IF last THEN DownloadReturns
                        ELSE UNCHANGED certsDir
                ELSE /\ DownloadReturns
                     /\ UNCHANGED workDir

\* downloadImages: the release image is copied first.
CreatorCopyRelease ==
  /\ who = "creator" /\ pc = "copyRelease"
  /\ Copy(found.release, DOMAIN found.images = {})
  /\ idx' = 0
  /\ UNCHANGED <<who, discovery, registry, found, outDir>>

\* downloadImages: the loop over the sorted tags.
CreatorCopyImage ==
  /\ who = "creator" /\ pc = "copyImage"
  /\ \E keys \in Keys(found.images) :
       LET tags == Sort(keys)
       IN /\ Copy(found.images[tags[idx + 1]], idx + 1 = Len(tags))
          /\ idx' = idx + 1
  /\ UNCHANGED <<who, discovery, registry, found, outDir>>

\* Faulty variant of CreatorStopRegistry: the error of Stop is reported and
\* Run goes on.
CreatorStopRegistry_ErrorIgnored ==
  /\ who = "creator" /\ pc = "Stop"
  /\ \E how \in {"shutdown", "removeAll", "ok"} :
       /\ trace' = Append(trace, Ev("Stop", NoRef,
                                    IF how = "ok" THEN "ok" ELSE "fault"))
       /\ pc' = "writeMetadata"
       /\ result' = "none"
       /\ registry' = CASE how = "shutdown" -> registry
                        [] how = "removeAll" -> [registry EXCEPT !.state = "stopped"]
                        [] how = "ok" -> [registry EXCEPT !.state = "stopped",
                                                          !.tmp = FALSE]
  /\ UNCHANGED <<who, discovery, idx, found, workDir, outDir, certsDir>>

\* registry.Stop: shut the server down, then remove the private directory of
\* the registry; either can fail.
CreatorStopRegistry ==
  /\ who = "creator" /\ pc = "Stop"
  /\ \E how \in {"shutdown", "removeAll", "ok"} :
       /\ CreatorCall("Stop", IF how = "ok" THEN "ok" ELSE "fault",
                      "writeMetadata")
       /\ registry' = CASE how = "shutdown" -> registry
                        [] how = "removeAll" -> [registry EXCEPT !.state = "stopped"]
                        [] how = "ok" -> [registry EXCEPT !.state = "stopped",
                                                          !.tmp = FALSE]
  /\ UNCHANGED <<idx, found, workDir, outDir, certsDir>>

\* Faulty variant of NewMetadata: the references of the images in the local
\* registry, in the order of the tags.
NewMetadata_Destinations(f) ==
  { [Release |-> f.release,
     Images |-> [i \in DOMAIN keys |->
                   dstRef(CreatorAddr, f.images[Sort(keys)[i]])]] :
    keys \in Keys(f.images) }

\* The Metadata that Run makes of what findImages returned: the release and
\* maps.Values of the images.
NewMetadata(f) ==
  { [Release |-> f.release, Images |-> images] : images \in Values(f.images) }

\* writeMetadata: metadata.json in the working directory.
CreatorWriteMetadata ==
  /\ who = "creator" /\ pc = "writeMetadata"
  /\ \E o \in Faulty, m \in NewMetadata(found) :
       /\ CreatorCall("writeMetadata", o, "writeBundle")
       /\ workDir' = IF o = "ok" THEN [workDir EXCEPT !.metadata = File(m)]
                     ELSE workDir
  /\ UNCHANGED <<idx, registry, found, outDir, certsDir>>

\* writeBundle: "tar" writes the archive over the one that is there; a tar
\* that fails after it opened the archive leaves it cut short.
CreatorWriteBundle ==
  /\ who = "creator" /\ pc = "writeBundle"
  /\ \E how \in {"ok", "lookPath", "tar"} :
       /\ CreatorCall("writeBundle", IF how = "ok" THEN "ok" ELSE "fault",
                      "writeDigest")
       /\ outDir' = CASE how = "ok" ->
                          [outDir EXCEPT !.bundle = File(Tar(workDir))]
                      [] how = "tar" ->
                          [outDir EXCEPT !.bundle = File(EmptyTar)]
                      [] OTHER -> outDir
  /\ UNCHANGED <<idx, registry, found, workDir, certsDir>>

\* writeDigest: the SHA-256 of the archive, then the digest file, opened with
\* O_TRUNC and written with the sum and the name of the archive.
writeDigest(out, how) ==
  CASE how = "ok" ->
         [out EXCEPT !.digest =
            File([sum |-> Sha256(out.bundle.content), name |-> "upgrade.tar"])]
    [] how = "Fprintf" -> [out EXCEPT !.digest = File(EmptyDigest)]
    [] OTHER -> out

CreatorWriteDigest ==
  /\ who = "creator" /\ pc = "writeDigest"
  /\ \E how \in {"ok", "Open", "Fprintf"} :
       /\ CreatorCall("writeDigest", IF how = "ok" THEN "ok" ELSE "fault",
                      "writeManifest")
       /\ outDir' = writeDigest(outDir, how)
  /\ UNCHANGED <<idx, registry, found, workDir, certsDir>>

\* writeManifest: the template is written to the manifest file; Run returns.
CreatorWriteManifest ==
  /\ who = "creator" /\ pc = "writeManifest"
  /\ \E o \in Faulty :
       /\ LastStep("writeManifest", NoRef, o)
       /\ outDir' = IF o = "ok" THEN [outDir EXCEPT !.manifest = TRUE]
                    ELSE outDir
  /\ UNCHANGED <<who, discovery, idx, registry, found, workDir, certsDir>>

\* The create-bundle command after creator.Run returned: the error is logged
\* and the command returns exit.Error(1) ("err"); otherwise it returns nil.
createBundleRun(run) == IF run = "ok" THEN "ok" ELSE "err"

CreatorStep ==
  \/ CreatorUserCacheDir
  \/ CreatorCreateDir
  \/ CreatorFindImages
  \/ CreatorCreateRegistry
  \/ CreatorMkdirTemp
  \/ CreatorWriteFile
  \/ CreatorCopyRelease
  \/ CreatorCopyImage
  \/ CreatorStopRegistry
  \/ CreatorWriteMetadata
  \/ CreatorWriteBundle
  \/ CreatorWriteDigest
  \/ CreatorWriteManifest

\* The Creator alone, run any number of times for one version and arch, on
\* a machine where the working and the output directory do not exist yet.
CreatorInit ==
  /\ bundleDir = FALSE
  /\ tmpDir = FALSE
  /\ metadata = NoMetadata
  /\ pinConf = NoPin
  /\ mirrorConf = NoMirror
  /\ crioLoaded = ReloadService(NoPin, NoMirror)
  /\ labels = NoLabels
  /\ annotation = <<>>
  /\ registry = NoRegistry
  /\ pc = "idle"
  /\ who = "none"
  /\ idx = 0
  /\ nodeObject = NoNode
  /\ result = "none"
  /\ trace = <<>>
  /\ progress = <<>>
  /\ prev = NoPrev
  /\ md = NoMetadata
  /\ discovery \in Discoveries
  /\ found = NoFound
  /\ workDir = NoWorkDir
  /\ outDir = NoOutDir
  /\ certsDir = "none"
  /\ mdValue = ZeroMetadata
  /\ mdData = NoData
  /\ mdParsed = NoParsed
  \* The registry of the Creator is the registry variable: the variables of
  \* a registry on its own are not used here.
  /\ builder = <<>>
  /\ reg = <<>>
  /\ heap = <<>>
  /\ caller = <<>>
  /\ disk = <<>>
  /\ task = "none"
  /\ call = <<>>

CreatorNext ==
  \/ CreatorInvoke /\ UNCHANGED <<nodeVars, registryVars, jsonVars>>
  \/ CreatorStep /\ UNCHANGED <<nodeVars, registryVars, jsonVars>>

CreatorSpec == CreatorInit /\ [][CreatorNext]_vars

\* ============================================================== Registry

\* The number of byte slices that can be alive at a time.
MaxBufs == 6

\* Byte slices live on a heap: a slice is the id of its buffer, or Nil, and
\* two slices of the same id share their bytes.
Nil == 0
Bufs == 1..MaxBufs
Free == "<free>"
Bytes == {"crt", "key", "junk"}

\* The addresses and roots a builder can be given, and what the data root may
\* hold: the blobs of the images.
Addresses == {"", "localhost:0", "localhost:5001"}
Roots == {"", "/bundle"}
Blobs == {"blobA", "blobB"}

NoBuilder == [address |-> "", root |-> "", cert |-> Nil, key |-> Nil]
NilRegistry ==
  [built |-> FALSE, address |-> "", root |-> "", cert |-> Nil, key |-> Nil,
   listener |-> NoAddr, server |-> "nil"]
NoTmp == [exists |-> FALSE, crt |-> "", key |-> ""]
NoCall == [op |-> "none", pc |-> "none", err |-> "nil",
           build |-> "none", start |-> "none", stop |-> "none"]

\* The slices that are reachable: those of the builder, of the registry and
\* of the caller.
Reachable ==
  {builder.cert, builder.key, reg.cert, reg.key, caller.cert, caller.key,
   caller.gotCert, caller.gotKey} \ {Nil}

\* A buffer that is not in use.
Fresh(h, used) == CHOOSE b \in Bufs : h[b] = Free /\ b \notin used
HasFresh(h, n) == Cardinality({b \in Bufs : h[b] = Free}) >= n

\* Faulty variant of Clone: the slice itself, sharing its bytes.
Clone_Shared(h, s, b) == [heap |-> h, slice |-> s]

\* slices.Clone into the unused buffer b: nil for nil, else a new slice with
\* the same bytes.
Clone(h, s, b) ==
  IF s = Nil THEN [heap |-> h, slice |-> Nil]
  ELSE [heap |-> [h EXCEPT ![b] = h[s]], slice |-> b]

\* The garbage collector: a buffer that nothing refers to is free again.
Collect(h, live) == [b \in Bufs |-> IF b \in live THEN h[b] ELSE Free]

\* SetCertificate: the builder keeps clones of the two slices.
SetCertificate(cert, key) ==
  /\ ~reg.built /\ call.op = "none"
  /\ LET h == Collect(heap, Reachable \ {builder.cert, builder.key})
     IN /\ HasFresh(h, 2)
        /\ LET c == Clone(h, cert, Fresh(h, {}))
               k == Clone(c.heap, key, Fresh(c.heap, {}))
           IN /\ builder' = [builder EXCEPT !.cert = c.slice, !.key = k.slice]
              /\ heap' = k.heap
  /\ UNCHANGED <<reg, caller, disk, task, call>>

\* The caller sets the certificate, the key, or both, from the slices it has.
RegistrySetCertificate ==
  \E cert \in {Nil, caller.cert}, key \in {Nil, caller.key} :
    /\ cert # Nil \/ key # Nil
    /\ SetCertificate(cert, key)

\* Faulty variant of CheckParameters: the root is not checked.
CheckParameters_NoRoot(b) ==
  CASE b.address = "" -> "address is mandatory"
    [] b.cert # Nil /\ b.key = Nil -> "key is mandatory when certificate is set"
    [] b.key # Nil /\ b.cert = Nil -> "certificate is mandatory when key is set"
    [] OTHER -> "nil"

\* Build: the checks of the parameters, in their order.
CheckParameters(b) ==
  CASE b.address = "" -> "address is mandatory"
    [] b.root = "" -> "root is mandatory"
    [] b.cert # Nil /\ b.key = Nil -> "key is mandatory when certificate is set"
    [] b.key # Nil /\ b.cert = Nil -> "certificate is mandatory when key is set"
    [] OTHER -> "nil"

\* Build, after the checks: os.MkdirTemp, a self signed certificate if none
\* was set, and the Registry with the slices of the builder.
RegistryBuild ==
  /\ ~reg.built /\ call.op = "none"
  /\ LET err == CheckParameters(builder)
     IN IF err # "nil"
          THEN /\ call' = [call EXCEPT !.build = err]
               /\ UNCHANGED <<reg, heap, disk>>
          ELSE \E how \in {"MkdirTemp", "makeSelfSignedCert", "ok"} :
                 CASE how = "MkdirTemp" ->
                        /\ call' = [call EXCEPT !.build = "MkdirTemp"]
                        /\ UNCHANGED <<reg, heap, disk>>
                   [] how = "makeSelfSignedCert" ->
                        /\ builder.cert = Nil /\ builder.key = Nil
                        /\ call' = [call EXCEPT !.build = "makeSelfSignedCert"]
                        /\ disk' = [disk EXCEPT !.tmp.exists = TRUE]
                        /\ UNCHANGED <<reg, heap>>
                   [] how = "ok" ->
                        /\ builder.cert # Nil \/ HasFresh(heap, 2)
                        /\ LET own == builder.cert # Nil
                               c == IF own THEN builder.cert ELSE Fresh(heap, {})
                               k == IF own THEN builder.key ELSE Fresh(heap, {c})
                           IN /\ heap' = IF own THEN heap
                                         ELSE [heap EXCEPT ![c] = "crt",
                                                           ![k] = "key"]
                              /\ reg' = [built |-> TRUE,
                                       address |-> builder.address,
                                       root |-> builder.root,
                                       cert |-> c, key |-> k,
                                       listener |-> NoAddr, server |-> "nil"]
                        /\ disk' = [disk EXCEPT !.tmp = [exists |-> TRUE,
                                                        crt |-> "", key |-> ""]]
                        /\ call' = [call EXCEPT !.build = "nil"]
  /\ UNCHANGED <<builder, caller, task>>

\* A method returns: the value it returns is kept in call.
Return(method, value) ==
  call' = [call EXCEPT !.op = "none", !.pc = "none", ![method] = value]

\* net.Listen: the address the listener is bound to; for port 0 the system
\* picks the port.
Listen(address) ==
  IF address = "localhost:0" THEN Addrs ELSE {CreatorAddr}

\* Address: the address of the listener.
Address(rg) == rg.listener

\* Start: os.WriteFile of tls.crt in the private directory.
RegistryStartWriteCert ==
  /\ reg.built /\ call.op = "none" /\ call.start = "none"
  /\ call.stop # "panic"
  /\ \E o \in IF disk.tmp.exists THEN Faulty ELSE {"fail"} :
       IF o = "ok"
         THEN /\ disk' = [disk EXCEPT !.tmp.crt = heap[reg.cert]]
              /\ call' = [call EXCEPT !.op = "Start", !.pc = "WriteKey",
                                      !.err = "nil"]
         ELSE /\ Return("start", "WriteFile")
              /\ UNCHANGED disk
  /\ UNCHANGED <<builder, reg, heap, caller, task>>

\* Start: os.WriteFile of tls.key.
RegistryStartWriteKey ==
  /\ call.op = "Start" /\ call.pc = "WriteKey"
  /\ \E o \in IF disk.tmp.exists THEN Faulty ELSE {"fail"} :
       IF o = "ok"
         THEN /\ disk' = [disk EXCEPT !.tmp.key = heap[reg.key]]
              /\ call' = [call EXCEPT !.pc = "Listen"]
         ELSE /\ Return("start", "WriteFile")
              /\ UNCHANGED disk
  /\ UNCHANGED <<builder, reg, heap, caller, task>>

\* Start: net.Listen; its error is returned.
RegistryStartListen ==
  /\ call.op = "Start" /\ call.pc = "Listen"
  /\ \/ \E addr \in Listen(reg.address) :
          /\ reg' = [reg EXCEPT !.listener = addr]
          /\ call' = [call EXCEPT !.pc = "NewServer"]
     \/ /\ Return("start", "Listen")
        /\ UNCHANGED reg
  /\ UNCHANGED <<builder, heap, caller, disk, task>>

\* Start: the configuration and the http.Server with the handlers.
RegistryStartNewServer ==
  /\ call.op = "Start" /\ call.pc = "NewServer"
  /\ reg' = [reg EXCEPT !.server = "created"]
  /\ call' = [call EXCEPT !.pc = "go"]
  /\ UNCHANGED <<builder, heap, caller, disk, task>>

\* Start: the go statement.
RegistryStartGo ==
  /\ call.op = "Start" /\ call.pc = "go"
  /\ task' = "spawned"
  /\ call' = [call EXCEPT !.pc = "return"]
  /\ UNCHANGED <<builder, reg, heap, caller, disk>>

\* Faulty variant of StartReturns: `return err`, the variable the function of
\* the go statement assigns.
StartReturns_Err == Return("start", call.err)

\* Start: `return nil`.
StartReturns == Return("start", "nil")

RegistryStartReturn ==
  /\ call.op = "Start" /\ call.pc = "return"
  /\ StartReturns
  /\ UNCHANGED <<builder, reg, heap, caller, disk, task>>

\* The function of the go statement: ServeTLS begins to serve on the
\* listener, or returns http.ErrServerClosed if the server was shut down.
TaskServe ==
  /\ task = "spawned"
  /\ task' = IF reg.server = "shutdown" THEN "closed" ELSE "serving"
  /\ UNCHANGED <<builder, reg, heap, caller, disk, call>>

\* ServeTLS returns another error, at once or while it serves: the function
\* assigns it to err and logs it.
TaskFail ==
  /\ task \in {"spawned", "serving"}
  /\ task' = "failed"
  /\ call' = [call EXCEPT !.err = "ServeTLS"]
  /\ UNCHANGED <<builder, reg, heap, caller, disk>>

\* A client of the registry pushes a blob, which the server stores under the
\* data root.
PutBlob ==
  /\ task = "serving"
  /\ \E b \in Blobs :
       /\ b \notin disk.root
       /\ disk' = [disk EXCEPT !.root = @ \cup {b}]
  /\ UNCHANGED <<builder, reg, heap, caller, task, call>>

\* Faulty variant of RemoveTmp: the root of the registry is removed as well.
RemoveTmp_AndRoot(d) == [d EXCEPT !.tmp = NoTmp, !.root = {}]

\* os.RemoveAll(reg.tmp).
RemoveTmp(d) == [d EXCEPT !.tmp = NoTmp]

\* Stop: reg.server.Shutdown, a nil pointer dereference when Start has not set
\* the server; its error is returned.
RegistryStopShutdown ==
  /\ reg.built /\ call.op = "none" /\ call.stop # "panic"
  /\ IF reg.server = "nil"
       THEN /\ Return("stop", "panic")
            /\ UNCHANGED <<reg, task>>
       ELSE /\ reg' = [reg EXCEPT !.server = "shutdown"]
            /\ task' = IF task = "serving" THEN "closed" ELSE task
            /\ \E o \in Faulty :
                 IF o = "ok"
                   THEN call' = [call EXCEPT !.op = "Stop", !.pc = "RemoveAll"]
                   ELSE Return("stop", "Shutdown")
  /\ UNCHANGED <<builder, heap, caller, disk>>

\* Stop: os.RemoveAll of the private directory; its error is returned.
RegistryStopRemoveAll ==
  /\ call.op = "Stop" /\ call.pc = "RemoveAll"
  /\ \E o \in RemoveAllOutcomes(disk.tmp.exists) :
       IF o = "ok"
         THEN /\ disk' = RemoveTmp(disk)
              /\ Return("stop", "nil")
         ELSE /\ Return("stop", "RemoveAll")
              /\ UNCHANGED disk
  /\ UNCHANGED <<builder, reg, heap, caller, task>>

\* Certificate: clones of the certificate and of the key; the caller lets go
\* of the ones it got before.
RegistryCertificate ==
  /\ reg.built
  /\ LET h == Collect(heap, Reachable \ {caller.gotCert, caller.gotKey})
     IN /\ HasFresh(h, 2)
        /\ LET c == Clone(h, reg.cert, Fresh(h, {}))
               k == Clone(c.heap, reg.key, Fresh(c.heap, {}))
           IN /\ caller' = [caller EXCEPT !.gotCert = c.slice,
                                          !.gotKey = k.slice]
              /\ heap' = k.heap
  /\ UNCHANGED <<builder, reg, disk, task, call>>

\* The caller writes to the bytes of a slice it has: one it passed to
\* SetCertificate or one Certificate returned.
Modify ==
  /\ \E s \in {caller.cert, caller.key, caller.gotCert, caller.gotKey} \ {Nil} :
       /\ heap[s] # "junk"
       /\ heap' = [heap EXCEPT ![s] = "junk"]
  /\ UNCHANGED <<builder, reg, caller, disk, task, call>>

\* A registry alone: a builder with an address and a root, a caller with a
\* certificate and a key, and a data root that may hold a blob already.
RegistryInit ==
  /\ bundleDir = FALSE
  /\ tmpDir = FALSE
  /\ metadata = NoMetadata
  /\ pinConf = NoPin
  /\ mirrorConf = NoMirror
  /\ crioLoaded = ReloadService(NoPin, NoMirror)
  /\ labels = NoLabels
  /\ annotation = <<>>
  /\ registry = NoRegistry
  /\ pc = "idle"
  /\ who = "none"
  /\ idx = 0
  /\ nodeObject = NoNode
  /\ result = "none"
  /\ trace = <<>>
  /\ progress = <<>>
  /\ prev = NoPrev
  /\ md = NoMetadata
  \* Neither the Loader nor the Creator runs here.
  /\ discovery = [digest |-> NoDigest, images |-> <<>>]
  /\ found = NoFound
  /\ workDir = NoWorkDir
  /\ outDir = NoOutDir
  /\ certsDir = "none"
  /\ mdValue = ZeroMetadata
  /\ mdData = NoData
  /\ mdParsed = NoParsed
  /\ \E address \in Addresses, root \in Roots :
       builder = [NoBuilder EXCEPT !.address = address, !.root = root]
  /\ reg = NilRegistry
  /\ heap = [b \in Bufs |-> CASE b = 1 -> "crt" [] b = 2 -> "key"
                              [] OTHER -> Free]
  /\ caller = [cert |-> 1, key |-> 2, gotCert |-> Nil, gotKey |-> Nil]
  /\ disk \in [tmp : {NoTmp}, root : {{}, {"blobA"}}]
  /\ task = "none"
  /\ call = NoCall

otherVars ==
  <<nodeVars, creatorVars, jsonVars, registry, pc, who, idx, result, trace>>

RegistryNext ==
  \/ RegistrySetCertificate /\ UNCHANGED otherVars
  \/ RegistryBuild /\ UNCHANGED otherVars
  \/ RegistryStartWriteCert /\ UNCHANGED otherVars
  \/ RegistryStartWriteKey /\ UNCHANGED otherVars
  \/ RegistryStartListen /\ UNCHANGED otherVars
  \/ RegistryStartNewServer /\ UNCHANGED otherVars
  \/ RegistryStartGo /\ UNCHANGED otherVars
  \/ RegistryStartReturn /\ UNCHANGED otherVars
  \/ TaskServe /\ UNCHANGED otherVars
  \/ TaskFail /\ UNCHANGED otherVars
  \/ PutBlob /\ UNCHANGED otherVars
  \/ RegistryStopShutdown /\ UNCHANGED otherVars
  \/ RegistryStopRemoveAll /\ UNCHANGED otherVars
  \/ RegistryCertificate /\ UNCHANGED otherVars
  \/ Modify /\ UNCHANGED otherVars

RegistrySpec == RegistryInit /\ [][RegistryNext]_vars

\* ============================================================== Metadata

\* The Metadata values that are written: each string empty or not, and the
\* images nil, or a list of up to MaxImages references.
MetadataValues ==
  [Version : {"", "4.13.4"}, Arch : {"", "x86_64"}, Release : {"", "rel"},
   Images : {NilSlice} \cup {Slice(s) : s \in ImageLists}]

\* The JSON name of each field and what "omitempty" takes for empty: the
\* string "", and a slice of length 0, nil or not.
JsonName ==
  [Version |-> "version", Arch |-> "arch", Release |-> "release",
   Images |-> "images"]
IsEmpty(m, f) == IF f = "Images" THEN m.Images.elems = <<>> ELSE m[f] = ""

\* The field a JSON name stands for.
FieldOf(k) == CHOOSE f \in DOMAIN JsonName : JsonName[f] = k

\* Faulty variant of Marshal: the images are written under the name "image".
Marshal_Image(m) ==
  [k \in {IF f = "Images" THEN "image" ELSE JsonName[f] :
            f \in {g \in DOMAIN JsonName : ~IsEmpty(m, g)}} |->
     IF k = "image" THEN m.Images.elems ELSE m[FieldOf(k)]]

\* json.Marshal of a Metadata: the object of the fields that are not empty,
\* a string as a string and the images as the array of their elements.
Marshal(m) ==
  [k \in {JsonName[f] : f \in {g \in DOMAIN JsonName : ~IsEmpty(m, g)}} |->
     IF k = "images" THEN m.Images.elems ELSE m[FieldOf(k)]]

\* json.Unmarshal of an object into a nil *Metadata: a new Metadata whose
\* fields are those of the object; a field the object does not have stays
\* zero, and an array becomes a slice that is not nil.
Unmarshal(json) ==
  [f \in DOMAIN JsonName |->
     IF JsonName[f] \in DOMAIN json
       THEN IF f = "Images" THEN Slice(json[JsonName[f]])
            ELSE json[JsonName[f]]
       ELSE ZeroMetadata[f]]

\* writeMetadata: json.Marshal, then os.WriteFile, which creates or truncates
\* the file and may fail before all bytes are written.
writeMetadata ==
  /\ \E o \in Faulty :
       mdData' = [present |-> TRUE, whole |-> o = "ok",
                  json |-> IF o = "ok" THEN Marshal(mdValue) ELSE EmptyObject]
  /\ UNCHANGED <<mdValue, mdParsed>>

\* readMetadata: os.ReadFile, then json.Unmarshal, which fails on bytes that
\* are not a whole JSON value.
readMetadata ==
  /\ \E o \in Faulty :
       mdParsed' =
         IF o = "ok" /\ mdData.present /\ mdData.whole
           THEN [state |-> "ok", result |-> Unmarshal(mdData.json)]
           ELSE [state |-> "err", result |-> ZeroMetadata]
  /\ UNCHANGED <<mdValue, mdData>>

programVars ==
  <<nodeVars, creatorVars, registryVars, registry, pc, who, idx, result,
    trace>>

\* A Metadata value written by the Creator and read back by the Loader.
MetadataInit ==
  /\ bundleDir = FALSE
  /\ tmpDir = FALSE
  /\ metadata = NoMetadata
  /\ pinConf = NoPin
  /\ mirrorConf = NoMirror
  /\ crioLoaded = ReloadService(NoPin, NoMirror)
  /\ labels = NoLabels
  /\ annotation = <<>>
  /\ registry = NoRegistry
  /\ pc = "idle"
  /\ who = "none"
  /\ idx = 0
  /\ nodeObject = NoNode
  /\ result = "none"
  /\ trace = <<>>
  /\ progress = <<>>
  /\ prev = NoPrev
  /\ md = NoMetadata
  /\ discovery = <<>>
  /\ found = <<>>
  /\ workDir = <<>>
  /\ outDir = <<>>
  /\ certsDir = "none"
  /\ builder = <<>>
  /\ reg = <<>>
  /\ heap = <<>>
  /\ caller = <<>>
  /\ disk = <<>>
  /\ task = "none"
  /\ call = <<>>
  /\ mdValue \in MetadataValues
  /\ mdData = NoData
  /\ mdParsed = NoParsed

MetadataNext ==
  \/ writeMetadata /\ UNCHANGED programVars
  \/ readMetadata /\ UNCHANGED programVars

MetadataSpec == MetadataInit /\ [][MetadataNext]_vars

\* ---------------------------------------------------------------- claims

Last(t) == t[Len(t)]
Returned(name) == who = name /\ pc = "done"
Succeeded(name) == Returned(name) /\ result = "ok"

\* The events of t that are calls of op.
Calls(t, op) == SelectSeq(t, LAMBDA e : Op(e) = op)
Called(t, op) == \E i \in 1..Len(t) : Op(t[i]) = op
CalledOk(t, op) == \E i \in 1..Len(t) : Op(t[i]) = op /\ Outcome(t[i]) = "ok"

\* The pulls of a whole load of metadata m, in order, each successful.
PullPlan(m) ==
  <<Ev("PullImage", m.Release, "ok")>> \o
  [i \in 1..Len(m.Images) |-> Ev("PullImage", m.Images[i], "ok")]

\* The calls of a Loader run of metadata m up to the fetch of the node, in
\* order, each successful.
LoaderPlan(m) ==
  <<Ev("checkBundleDir", "-", "ok"), Ev("readMetadata", "-", "ok"),
    Ev("startRegistry", "-", "ok"), Ev("CreatePinConf", "-", "ok"),
    Ev("CreateMirrorConf", "-", "ok"), Ev("ReloadService", "-", "ok")>> \o
  PullPlan(m) \o
  <<Ev("RemoveMirrorConf", "-", "ok"), Ev("ReloadService", "-", "ok"),
    Ev("Stop", "-", "ok"), Ev("deleteBundle", "-", "ok"), Ev("Get", "-", "ok")>>

\* C1: whenever BundleLoader.Run returns success, the runtime configuration
\* has no mirror entry and has a pin entry that covers every image reference
\* of the metadata the run read.
C1_LoadedPinNoMirror ==
  Succeeded("loader") =>
    /\ ~mirrorConf.present
    /\ pinConf.present
    /\ \A i \in 1..Len(md.Images) :
         \E j \in 1..Len(pinConf.refs) : pinConf.refs[j] = md.Images[i]

\* A successful load of a bundle that lists two different images.
C1_Witness ==
  /\ Succeeded("loader")
  /\ Len(md.Images) = 2
  /\ md.Images[1] # md.Images[2]
  /\ pinConf.present

\* A step of a Loader run that sends the Patch of writeResult or changes a
\* label of the node.
C2_LoaderWrites ==
  /\ who = "loader" /\ who' = "loader"
  /\ \/ labels' # labels
     \/ /\ Len(trace') = Len(trace) + 1
        /\ Op(Last(trace')) = "Patch"

\* C2: in every Loader run the bundle-loaded label is written (the Patch of
\* writeResult is sent, or a label of the node changes) only when the calls
\* made so far are exactly: directory checked, metadata parsed, registry
\* started, pin and mirror written, runtime reloaded, release image and every
\* listed image pulled in order, mirror removed, runtime reloaded, registry
\* stopped, bundle directory deleted, node fetched, each of them successful;
\* so a run in which one of them failed never writes the label.
C2_LabelAfterAllSteps ==
  [][C2_LoaderWrites =>
       /\ trace = LoaderPlan(md)
       /\ labels' \in {labels, [labels EXCEPT ![BundleLoaded] = "true"]}]_vars

\* A run that wrote the label after pulling two images.
C2_Witness ==
  /\ Succeeded("loader")
  /\ Len(md.Images) = 2
  /\ labels[BundleLoaded] = "true"
  /\ Op(Last(trace)) = "Patch"

\* C3: a Loader run deletes the bundle directory only after the release image
\* and every image of the metadata were pulled successfully, and in a run
\* that passed the directory check and has not (successfully) deleted the
\* directory, such as any run that failed at a pull or at a step before the
\* pulls, the directory still exists.
C3_DeleteOnlyAfterAllPulls ==
  who = "loader" =>
    /\ Called(trace, "deleteBundle") => Calls(trace, "PullImage") = PullPlan(md)
    /\ (/\ Len(trace) >= 1
        /\ Outcome(trace[1]) = "ok"
        /\ ~CalledOk(trace, "deleteBundle")) => bundleDir

\* A run that returned the error of the pull of the second listed image, the
\* bundle directory still there.
C3_Witness ==
  /\ Returned("loader") /\ result = "err"
  /\ Op(Last(trace)) = "PullImage" /\ Outcome(Last(trace)) = "fault"
  /\ Len(Calls(trace, "PullImage")) = 3
  /\ bundleDir

\* C4: the Loader pulls the release image first and then the metadata's
\* images in listed order, one at a time; a pull that fails is the last call
\* of the run, which returns its error, so no image after it is pulled.
C4_PullsInOrderStopAtFailure ==
  who = "loader" =>
    LET pulls == Calls(trace, "PullImage")
        refs == <<md.Release>> \o md.Images
    IN /\ Len(pulls) <= Len(refs)
       /\ \A i \in 1..Len(pulls) : Arg(pulls[i]) = refs[i]
       /\ \A i \in 1..Len(trace) :
            (Op(trace[i]) = "PullImage" /\ Outcome(trace[i]) # "ok") =>
              /\ i = Len(trace)
              /\ pc = "done"
              /\ result = "err"

\* The pull of the first of two listed images failed: the release image and
\* that image were tried, the second image was not.
C4_Witness ==
  /\ Returned("loader") /\ result = "err"
  /\ Len(md.Images) = 2
  /\ Len(Calls(trace, "PullImage")) = 2
  /\ Outcome(Last(trace)) = "fault"

\* C5: when Run is invoked and the bundle directory does not exist, the
\* directory check is the only call of the run and Run returns an error: no
\* metadata is read, no registry is built or started, the files, the CRI-O
\* configuration and the loaded configuration are as they were, nothing is
\* pulled and no label or annotation is patched.
C5_NoBundleDirFailsAtOnce ==
  [][(who = "loader" /\ pc = "checkBundleDir" /\ ~bundleDir) =>
       /\ pc' = "done"
       /\ result' = "err"
       /\ Len(trace') = 1
       /\ Op(trace'[1]) = "checkBundleDir"
       /\ NodeState' = NodeState
       /\ registry' = NoRegistry
       /\ md' = NoMetadata
       /\ progress' = <<>>]_vars

\* A run on a node without bundle directory returned from the check, the
\* stale pin and mirror entries of the node untouched.
C5_Witness ==
  /\ Returned("loader") /\ result = "err"
  /\ ~bundleDir
  /\ trace = <<Ev("checkBundleDir", "-", "fail")>>
  /\ pinConf.present /\ mirrorConf.present


\* The "Pulled k of n images" reports of the run so far.
CountReports == SelectSeq(progress, LAMBDA p : p.text # PulledRelease)

\* The number of listed images (not the release image, the first pull) whose
\* pull succeeded in the run so far.
ImagesPulled ==
  LET pulls == Calls(trace, "PullImage")
  IN Cardinality({i \in 2..Len(pulls) : Outcome(pulls[i]) = "ok"})

\* C6: for a bundle of n listed images the "Pulled k of n images" reports of
\* a Loader run carry k = 1, 2, ..., m in this order, where m is the number
\* of listed images pulled successfully: one report for each successful pull
\* (made right after it), none for a pull that failed. The release image has
\* a report of its own, "Pulled release image", made the same way.
C6_ProgressCounts ==
  who = "loader" =>
    /\ \A k \in 1..Len(CountReports) :
         CountReports[k].text = PulledOf(k, Len(md.Images))
    /\ Len(CountReports) = ImagesPulled - (IF pc = "ReportImage" THEN 1 ELSE 0)
    /\ Len(progress) - Len(CountReports) =
         (IF CalledOk(trace, "PullImage") /\ pc # "ReportRelease" THEN 1 ELSE 0)

\* The pull of the second of two images failed: the reports are the one of
\* the release image and "Pulled 1 of 2 images".
C6_Witness ==
  /\ Returned("loader") /\ result = "err"
  /\ Op(Last(trace)) = "PullImage"
  /\ Len(md.Images) = 2
  /\ Len(progress) = 2
  /\ progress[2].text = PulledOf(1, 2)

\* C7: a step of reportProgress, whether its patch fails or not, leaves Run
\* at the same place: the loop goes on with the next image (or ends), no
\* result is set, no call is added to or removed from the run, and files,
\* CRI-O configuration, registry and labels are untouched. The calls and the
\* result of Run therefore do not depend on which progress patches fail.
C7_ProgressFailureIsIgnored ==
  [][(who = "loader" /\ pc \in {"ReportRelease", "ReportImage"}) =>
       /\ pc' = LoopOrExit(IF pc = "ReportRelease" THEN 0 ELSE idx + 1)
       /\ result' = result
       /\ trace' = trace
       /\ Len(progress') = Len(progress) + 1
       /\ UNCHANGED <<fsVars, crioVars, registry, labels, md>>]_vars

\* A load of two images that succeeded although every progress patch failed.
C7_Witness ==
  /\ Succeeded("loader")
  /\ Len(md.Images) = 2
  /\ Len(progress) = 3
  /\ \A i \in 1..Len(progress) : ~progress[i].ok

\* C8: whenever BundleCleaner.Run returns success, the bundle directory and
\* "<dir>.tmp" do not exist, the CRI-O configuration has neither a pin nor a
\* mirror entry, the runtime has loaded that configuration (it was reloaded
\* after the removals) and the bundle-cleaned label is "true".
C8_CleanedNode ==
  Succeeded("cleaner") =>
    /\ ~bundleDir
    /\ ~tmpDir
    /\ pinConf = NoPin
    /\ mirrorConf = NoMirror
    /\ crioLoaded = ReloadService(NoPin, NoMirror)
    /\ labels[BundleCleaned] = "true"

\* A successful clean of a node that had never been cleaned (the run before
\* it was not a successful clean) and had been loaded.
C8_Witness ==
  /\ Succeeded("cleaner")
  /\ ~prev.cleaned
  /\ labels[BundleLoaded] = "true"

\* C9: in a Cleaner run that starts right after a successful Cleaner run, the
\* node (files, CRI-O configuration, loaded configuration, labels,
\* annotation) is at every step what the first run left, and the run
\* succeeds unless the environment makes one of its calls fail (an I/O or
\* API fault): no call fails because of what the first run left.
C9_CleanerIdempotent ==
  (who = "cleaner" /\ prev.cleaned) =>
    /\ NodeState = prev.node
    /\ pc = "done" => (result = "ok" \/ Outcome(Last(trace)) = "fault")

\* The second of two consecutive runs of the Cleaner returned success.
C9_Witness ==
  /\ Succeeded("cleaner")
  /\ prev.cleaned
  /\ Len(trace) = 7

\* C10: no step of a Loader or Cleaner run removes a state label or changes
\* one that is "true": a step that changes a label sets it to "true".
C10_LabelsMonotonic ==
  [][who' \in {"loader", "cleaner"} =>
       \A n \in LabelNames :
         labels'[n] # labels[n] => (labels[n] # "true" /\ labels'[n] = "true")]_vars

\* The Loader wrote bundle-loaded on a node whose two other labels are "true".
C10_Witness ==
  /\ Succeeded("loader")
  /\ \A n \in LabelNames : labels[n] = "true"

\* ------------------------------------------------- claims: BundleCreator

\* The step of Run a call belongs to: 1 the working directory, 2 discovery,
\* 3 the start of the registry, 4 the copies, 5 the stop of the registry,
\* 6 metadata.json, 7 the archive, 8 the digest, 9 the manifest.
StepOf(e) ==
  CASE Op(e) \in {"UserCacheDir", "createDir"} -> 1
    [] Op(e) = "findImages" -> 2
    [] Op(e) = "createRegistry" -> 3
    [] Op(e) \in {"MkdirTemp", "WriteFile", "dstRef", "downloadImage"} -> 4
    [] Op(e) = "Stop" -> 5
    [] Op(e) = "writeMetadata" -> 6
    [] Op(e) = "writeBundle" -> 7
    [] Op(e) = "writeDigest" -> 8
    [] Op(e) = "writeManifest" -> 9

\* The calls of a step that is one call, and the calls that happen once in
\* a step of several calls.
OnceOps ==
  {"UserCacheDir", "createDir", "findImages", "createRegistry", "MkdirTemp",
   "WriteFile", "Stop", "writeMetadata", "writeBundle", "writeDigest",
   "writeManifest"}

\* C11: the calls of a run of BundleCreator.Run follow the nine steps in
\* their order (working directory, discovery, start of the registry, copies,
\* stop of the registry, metadata.json, archive, digest, manifest): the run
\* starts with the first step, a call belongs to the step of the call before
\* it or to the next step, no step is entered twice, no call but a copy is
\* made twice, a call that failed is the last call of the run, and a run
\* that returned success made all nine steps.
C11_StepsInOrder ==
  who = "creator" =>
    /\ trace # <<>> => StepOf(trace[1]) = 1
    /\ \A i \in 1..(Len(trace) - 1) :
         /\ StepOf(trace[i + 1]) \in {StepOf(trace[i]), StepOf(trace[i]) + 1}
         /\ Outcome(trace[i]) = "ok"
    /\ \A op \in OnceOps : Len(Calls(trace, op)) <= 1
    /\ result = "ok" => StepOf(Last(trace)) = 9
    /\ (pc = "done" /\ result = "err") => Outcome(Last(trace)) # "ok"

\* A run copied the release and an image, and stopped at the registry's Stop,
\* which failed.
C11_Witness ==
  /\ Returned("creator")
  /\ result = "err"
  /\ Op(Last(trace)) = "Stop"
  /\ Len(Calls(trace, "downloadImage")) >= 2

\* The elements of a set of tags, in ascending order.
Ascending(S) ==
  CHOOSE o \in Orders(S) : \A i, j \in DOMAIN o : i < j => o[i] < o[j]

\* The copies of a whole copy phase of what findImages returned, in order.
CopyPlan(f) ==
  <<f.release>> \o
  [i \in 1..Cardinality(DOMAIN f.images) |->
     f.images[Ascending(DOMAIN f.images)[i]]]

\* The copies a run has made or tried.
Copies(t) == SelectSeq(t, LAMBDA e : Op(e) \in {"dstRef", "downloadImage"})

\* C12: the copies of a Creator run are, in order, the release image and
\* then the images of the tags in ascending order of the tags, each once
\* (the copies made so far are the first ones of that list); a copy that
\* failed is the last call of the run, which returned the error; and the
\* run goes on to stop the registry only after all of them succeeded.
C12_CopiesInTagOrder ==
  who = "creator" =>
    LET copies == Copies(trace)
        plan == CopyPlan(found)
    IN /\ Len(copies) <= Len(plan)
       /\ \A i \in 1..Len(copies) : Arg(copies[i]) = plan[i]
       /\ \A i \in 1..(Len(copies) - 1) : Outcome(copies[i]) = "ok"
       /\ (copies # <<>> /\ Outcome(Last(copies)) # "ok") =>
            /\ Last(trace) = Last(copies)
            /\ pc = "done" /\ result = "err"
       /\ Called(trace, "Stop") =>
            /\ Len(copies) = Len(plan)
            /\ Outcome(Last(copies)) = "ok"

\* The release and the image of the first of two tags were copied, and the
\* copy of the image of the second tag, another image, failed.
C12_Witness ==
  /\ Returned("creator")
  /\ Len(Copies(trace)) = 3
  /\ Outcome(Last(trace)) = "fault"
  /\ Op(Last(trace)) = "downloadImage"
  /\ Arg(trace[Len(trace) - 1]) = found.images[1]
  /\ Arg(Last(trace)) = found.images[2]
  /\ found.images[1] # found.images[2]

\* How many times x is in the list s, and how many tags of the map m give x
\* under the function F.
CountIn(s, x) == Cardinality({i \in DOMAIN s : s[i] = x})
TagsGiving(m, F(_), x) == Cardinality({t \in DOMAIN m : F(m[t]) = x})

\* The source reference of a pair, and its reference in the local registry.
SourceOf(ref) == ref
DestinationOf(ref) == dstRef(CreatorAddr, ref)

\* The images list of metadata.json has one entry per (tag, reference) pair
\* of what findImages returned, the entry of a pair being F of its reference.
OnePerPair(F(_)) ==
  LET images == workDir.metadata.content.Images
  IN /\ workDir.metadata.present
     /\ Len(images) = Cardinality(DOMAIN found.images)
     /\ \A i \in DOMAIN images :
          CountIn(images, images[i]) = TagsGiving(found.images, F, images[i])
     /\ \A t \in DOMAIN found.images :
          CountIn(images, F(found.images[t])) =
            TagsGiving(found.images, F, F(found.images[t]))

\* C13: after a Creator run that returned success, the images list of
\* metadata.json holds exactly the source references of the (tag, source
\* reference) pairs that release discovery returned: one entry per pair,
\* none omitted, none added.
C13_ImagesAreSources == Succeeded("creator") => OnePerPair(SourceOf)

\* A successful run for a release with two tags that point to the same image.
C13_Witness ==
  /\ Succeeded("creator")
  /\ DOMAIN found.images = {1, 2}
  /\ found.images[1] = found.images[2]

\* C13 as it was stated: the images list holds the references of the pairs
\* in the local registry, one entry per pair.
C13_ImagesAreDestinations ==
  Succeeded("creator") => OnePerPair(DestinationOf)

\* C14: after a Creator run that returned success, the images list of
\* metadata.json is in the ascending order of the tags: its i-th entry is the
\* entry of the i-th tag (so that it is the same list in every run).
C14_ImagesInTagOrder ==
  Succeeded("creator") =>
    LET images == workDir.metadata.content.Images
        tags == Ascending(DOMAIN found.images)
    IN /\ Len(images) = Len(tags)
       /\ \A i \in DOMAIN images : images[i] = found.images[tags[i]]

\* C15: in every state of the output directory, over any sequence of Creator
\* runs for one version and arch, when the archive and the digest file both
\* exist the digest file holds the SHA-256 of the bytes the archive has now.
C15_DigestMatchesArchive ==
  (outDir.bundle.present /\ outDir.digest.present) =>
    outDir.digest.content.sum = Sha256(outDir.bundle.content)

\* ------------------------------------------------------ claims: Registry

\* A call of Stop has ended: it returned, or it panicked.
Stopped == call.op = "none" /\ call.stop # "none"

\* C16: after a call of Stop on a built Registry, whether Start succeeded,
\* failed part-way or was never called, the private temporary directory of
\* the registry does not exist.
C16_StopRemovesTmp == Stopped => ~disk.tmp.exists

\* The builder is given no address, no root, or only one of certificate and
\* key.
Misconfigured(b) ==
  \/ b.address = ""
  \/ b.root = ""
  \/ (b.cert = Nil) # (b.key = Nil)

\* C17: a call of Build on a builder without address, without root, or with
\* only one of certificate and key returns an error and no Registry, and
\* does no I/O: it creates no private temporary directory and leaves disk
\* and memory as they are.
C17_BuildFailsBeforeIO ==
  [][(RegistryBuild /\ Misconfigured(builder)) =>
       /\ call'.build \in {"address is mandatory", "root is mandatory",
                           "key is mandatory when certificate is set",
                           "certificate is mandatory when key is set"}
       /\ ~reg'.built
       /\ disk' = disk
       /\ heap' = heap]_vars

\* Build refused a builder with an address, a root and a certificate
\* without its key, and there is no private directory.
C17_Witness ==
  /\ call.build = "key is mandatory when certificate is set"
  /\ builder.address # "" /\ builder.root # ""
  /\ ~reg.built
  /\ ~disk.tmp.exists

\* C18: no step of Stop changes what the data root holds, and no other step
\* changes it while Stop is in progress: the data root is after Stop what it
\* was before, and all Stop removes is the private directory.
C18_StopLeavesRoot ==
  [][/\ (RegistryStopShutdown \/ RegistryStopRemoveAll) =>
          disk'.root = disk.root
     /\ call.op = "Stop" => disk'.root = disk.root]_vars

\* Stop returned nil and removed the private directory of a registry that
\* served the pushes of two blobs, which the data root still holds.
C18_Witness ==
  /\ call.stop = "nil" /\ call.op = "none"
  /\ call.start = "nil"
  /\ ~disk.tmp.exists
  /\ disk.root = Blobs

\* C19: no step changes the bytes of the certificate and key of the registry
\* or, unless it is a call of SetCertificate, of the builder, whatever the
\* caller writes to the slices it passed or got; a call of Certificate
\* returns slices with the bytes of the registry's; and the files that
\* Start wrote hold those bytes.
C19_CertificateCopies ==
  [][/\ (reg.built /\ reg'.built) =>
          /\ heap'[reg'.cert] = heap[reg.cert]
          /\ heap'[reg'.key] = heap[reg.key]
     /\ (builder.cert # Nil /\ ~RegistrySetCertificate) =>
          heap'[builder'.cert] = heap[builder.cert]
     /\ (builder.key # Nil /\ ~RegistrySetCertificate) =>
          heap'[builder'.key] = heap[builder.key]
     /\ RegistryCertificate =>
          /\ heap'[caller'.gotCert] = heap[reg.cert]
          /\ heap'[caller'.gotKey] = heap[reg.key]
     /\ (reg'.built /\ disk'.tmp.crt # "") => disk'.tmp.crt = heap'[reg'.cert]
     /\ (reg'.built /\ disk'.tmp.key # "") => disk'.tmp.key = heap'[reg'.key]]_vars

\* The caller overwrote the certificate it passed to SetCertificate and the
\* one Certificate returned, and then called Certificate again; the registry,
\* the file that Start wrote and the new copy hold the certificate.
C19_Witness ==
  /\ reg.built
  /\ heap[caller.cert] = "junk"
  /\ heap[reg.cert] = "crt"
  /\ reg.cert \notin {caller.cert, caller.gotCert}
  /\ caller.gotCert # Nil /\ heap[caller.gotCert] = "crt"
  /\ caller.gotKey # Nil /\ heap[caller.gotKey] = "junk"
  /\ disk.tmp.crt = "crt"

\* C20: Start returns an error only before the go statement: when it
\* returned an error (that of net.Listen, for one) there is no background
\* task; when there is a background task, and so when Start returned nil,
\* the listener is bound, and Address is the bound address, with a port of
\* the system's choice when the configured port is 0; and once there is a
\* background task what Start returns is nil, whether the task serves, was
\* closed, or failed and logged its error.
C20_StartBindsFirst ==
  /\ call.start \notin {"none", "nil"} => task = "none"
  /\ call.start = "Listen" => reg.listener = NoAddr
  /\ call.start = "nil" => task # "none"
  /\ task # "none" =>
       /\ Address(reg) \in Listen(reg.address)
       /\ Address(reg) \notin {NoAddr, reg.address}
       /\ reg.address = "localhost:0" => Address(reg) \in Addrs
       /\ call.op # "Start" => call.start = "nil"

\* Start returned nil for a registry at port 0, and afterwards the
\* background task failed and logged its error.
C20_Witness ==
  /\ call.start = "nil" /\ call.op = "none"
  /\ task = "failed"
  /\ call.err = "ServeTLS"
  /\ reg.address = "localhost:0"
  /\ Address(reg) \in Addrs

\* ------------------------------------------------ claims: C21 and later

\* The calls by which a run starts its registry.
StartOps == {"startRegistry", "createRegistry"}
StartCalls(t) == SelectSeq(t, LAMBDA e : Op(e) \in StartOps)

C22_FailureExits ==
  who = "creator" =>
    /\ (\E i \in DOMAIN trace : Outcome(trace[i]) # "ok") =>
         /\ pc = "done"
         /\ result = "err"
         /\ createBundleRun(result) = "err"
    /\ pc = "done" => result \in {"ok", "err"}
    /\ result = "ok" =>
         /\ pc = "done"
         /\ {StepOf(trace[i]) : i \in DOMAIN trace} = 1..9
         /\ \A i \in DOMAIN trace : Outcome(trace[i]) = "ok"
         /\ createBundleRun(result) = "ok"

\* A run failed at its eighth step, the digest, after the archive was
\* written.
C22_Witness ==
  /\ Returned("creator")
  /\ result = "err"
  /\ Op(Last(trace)) = "writeDigest"
  /\ CalledOk(trace, "writeBundle")

\* The copy phase (downloadImages) has returned: its first call failed, or a
\* later call of it failed, or the run has gone on to the stop of the
\* registry.
CopyPhaseReturned ==
  /\ who = "creator"
  /\ Called(trace, "MkdirTemp")
  /\ \/ Called(trace, "Stop")
     \/ pc = "Stop"
     \/ pc = "done" /\ StepOf(Last(trace)) = 4

\* The throwaway directory is on disk.
CertsDirExists == certsDir \in {"present", "left"}

\* C23: when the copy phase has returned, in whichever way, the throwaway
\* directory it made has been handed to os.RemoveAll: it is on disk only if
\* that removal failed, and no directory was made only if os.MkdirTemp
\* failed.
C23_CertsDirRemoved ==
  CopyPhaseReturned =>
    /\ certsDir \in {"none", "removed", "left"}
    /\ certsDir = "none" <=> ~CalledOk(trace, "MkdirTemp")

\* The phase stopped at a destination reference that could not be computed,
\* after a copy, and the directory is gone.
C23_Witness ==
  /\ CopyPhaseReturned
  /\ Op(Last(trace)) = "dstRef"
  /\ CalledOk(trace, "downloadImage")
  /\ certsDir = "removed"

\* C23 as stated: the directory does not exist when the copy phase has
\* returned.
C23_CertsDirGone == CopyPhaseReturned => ~CertsDirExists

\* A reference of the release by digest d, repo@d, as opposed to repo:tag.
DigestPinned(ref, d) ==
  /\ ref.domain = bundleCreatorReleaseRepo.domain
  /\ ref.path = bundleCreatorReleaseRepo.path
  /\ ref.tag = ""
  /\ ref.digest = d
  /\ ref.digest # NoDigest

\* C24: the first copy of a run, which is that of the release, is made from
\* the reference of the release by the digest that release discovery
\* reported, and so is the Release that metadata.json records; neither
\* is the tagged reference that was asked about.
C24_ReleaseByDigest ==
  who = "creator" =>
    /\ Copies(trace) # <<>> =>
         /\ DigestPinned(Arg(Copies(trace)[1]), discovery.digest)
         /\ Arg(Copies(trace)[1]) # releaseQuery
    /\ workDir.metadata.present =>
         /\ DigestPinned(workDir.metadata.content.Release, discovery.digest)
         /\ workDir.metadata.content.Release # releaseQuery

\* A run copied the release and wrote metadata.json.
C24_Witness ==
  /\ who = "creator"
  /\ CalledOk(trace, "writeMetadata")
  /\ Outcome(Copies(trace)[1]) = "ok"
  /\ workDir.metadata.present

\* C25: the Metadata that readMetadata parsed from the metadata.json that
\* writeMetadata wrote has the version, the arch and the release of the
\* Metadata that was written, and the same images in the same order,
\* whichever fields of it are empty.
C25_MetadataRoundTrip ==
  mdParsed.state = "ok" =>
    /\ mdParsed.result.Version = mdValue.Version
    /\ mdParsed.result.Arch = mdValue.Arch
    /\ mdParsed.result.Release = mdValue.Release
    /\ Len(mdParsed.result.Images.elems) = Len(mdValue.Images.elems)
    /\ \A i \in DOMAIN mdValue.Images.elems :
         mdParsed.result.Images.elems[i] = mdValue.Images.elems[i]

\* A Metadata with no version and an empty list of images, which is not nil,
\* was written and read back: the file has neither member, and the list
\* that was read is empty too (and nil).
C25_Witness ==
  /\ mdParsed.state = "ok"
  /\ mdValue.Version = ""
  /\ mdValue.Arch # ""
  /\ mdValue.Images = Slice(<<>>)
  /\ DOMAIN mdData.json = {"arch", "release"}
  /\ mdParsed.result.Images = NilSlice

\* The label a run writes at its end.
OwnLabel(name) == IF name = "loader" THEN BundleLoaded ELSE BundleCleaned

\* C26: the Patch that ends a Loader or Cleaner run follows the Get of the
\* node, and when it succeeds it changes nothing of the node as it is at
\* that moment, changes of other writers since the Get included, but the
\* label of the run: every other label and the annotation stay, and the
\* label of the run becomes "true" unless the node that was fetched had it
\* so already, when nothing is sent for it.
C26_PatchSetsOneLabel ==
  [][(/\ who \in {"loader", "cleaner"}
      /\ pc = "Patch"
      /\ pc' = "done"
      /\ Outcome(Last(trace')) = "ok") =>
       /\ Last(trace) = Ev("Get", "-", "ok")
       /\ \A n \in LabelNames \ {OwnLabel(who)} : labels'[n] = labels[n]
       /\ annotation' = annotation
       /\ labels'[OwnLabel(who)] \in {labels[OwnLabel(who)], "true"}
       /\ nodeObject.labels[OwnLabel(who)] # "true" =>
            labels'[OwnLabel(who)] = "true"]_vars

\* The Loader set its label on a node of which another writer had changed a
\* label and the annotation after the Loader fetched it: both changes are
\* still there.
C26_Witness ==
  /\ Succeeded("loader")
  /\ labels[BundleLoaded] = "true"
  /\ nodeObject.labels[BundleLoaded] # "true"
  /\ labels[BundleCleaned] # nodeObject.labels[BundleCleaned]
  /\ annotation # nodeObject.annotation

\* The calls of a Loader run between the start and the stop of its registry.
AfterStartOps ==
  {"CreatePinConf", "CreateMirrorConf", "ReloadService", "PullImage",
   "RemoveMirrorConf"}

\* A Loader run has returned the error of one of them.
FailedAfterStart ==
  /\ Returned("loader")
  /\ result = "err"
  /\ Op(Last(trace)) \in AfterStartOps

\* C27: when a Loader run has returned the error of a call it made after it
\* started its registry (pin, mirror, a reload, a pull, removal of the
\* mirror), nothing was undone: the registry is live and has its private
\* directory, Stop was not called, the bundle directory is there, the entries
\* the run wrote are as it wrote them (the mirror entry unless the run
\* removed it itself), and the label was not written, no step of the run
\* but the final Patch changing a label.
C27_NothingUndone ==
  [][/\ FailedAfterStart' =>
          /\ CalledOk(trace', "startRegistry")
          /\ registry'.state = "live"
          /\ registry'.tmp
          /\ ~Called(trace', "Stop")
          /\ bundleDir'
          /\ ~Called(trace', "deleteBundle")
          /\ ~Called(trace', "Patch")
          /\ CalledOk(trace', "CreatePinConf") =>
               pinConf' = CreatePinConf(md'.Images)
          /\ (/\ CalledOk(trace', "CreateMirrorConf")
              /\ ~CalledOk(trace', "RemoveMirrorConf")) =>
               mirrorConf' = CreateMirrorConf(registry'.addr, md'.Images)
     /\ (who' = "loader" /\ ~Called(trace', "Patch")) => labels' = labels]_vars

\* A run failed at the pull of the second image: the pin and the mirror
\* entry are there, and the registry is live.
C27_Witness ==
  /\ FailedAfterStart
  /\ Op(Last(trace)) = "PullImage"
  /\ Len(Calls(trace, "PullImage")) = 3
  /\ pinConf.present
  /\ mirrorConf.present
  /\ registry.state = "live"

\* C28: a step of a Loader run that calls PullImage is taken while the
\* registry of the run is live at the address it is bound to, the pin entry
\* lists the images and the mirror entry sends them to that address, the
\* runtime has loaded both, and the run wrote them and reloaded in this
\* order; the run has not removed the mirror entry nor called Stop before.
C28_PullsWhileServed ==
  [][(/\ who = "loader"
      /\ Len(Calls(trace', "PullImage")) > Len(Calls(trace, "PullImage"))) =>
       /\ registry.state = "live"
       /\ registry.addr \in Addrs
       /\ pinConf = CreatePinConf(md.Images)
       /\ mirrorConf = CreateMirrorConf(registry.addr, md.Images)
       /\ crioLoaded = ReloadService(pinConf, mirrorConf)
       /\ \E i, j, k \in DOMAIN trace :
            /\ i < j /\ j < k
            /\ trace[i] = Ev("CreatePinConf", "-", "ok")
            /\ trace[j] = Ev("CreateMirrorConf", "-", "ok")
            /\ trace[k] = Ev("ReloadService", "-", "ok")
       /\ ~Called(trace, "RemoveMirrorConf")
       /\ ~Called(trace, "Stop")
       /\ registry' = registry]_vars

\* The pull of the second listed image succeeded.
C28_Witness ==
  /\ who = "loader"
  /\ trace # <<>>
  /\ Len(md.Images) = 2
  /\ Last(trace) = Ev("PullImage", md.Images[2], "ok")
  /\ Len(Calls(trace, "PullImage")) = 3
  /\ registry.state = "live"
  /\ mirrorConf.addr = registry.addr

\* C29: a step of a Loader run that calls deleteBundle, or after which the
\* bundle directory is gone, is taken right after Stop returned success, with
\* the registry stopped; and a step in which Stop fails ends the run with
\* the directory in place, no deleteBundle and no Patch called and the
\* labels as they were.
C29_DeleteAfterStop ==
  [][who = "loader" =>
       /\ (\/ Len(Calls(trace', "deleteBundle")) > Len(Calls(trace, "deleteBundle"))
           \/ bundleDir /\ ~bundleDir') =>
            /\ Last(trace) = Ev("Stop", "-", "ok")
            /\ registry.state = "stopped"
            /\ registry'.state = "stopped"
       /\ (Len(trace') > Len(trace) /\ Op(Last(trace')) = "Stop"
           /\ Outcome(Last(trace')) # "ok") =>
            /\ pc' = "done"
            /\ result' = "err"
            /\ bundleDir'
            /\ labels' = labels
            /\ ~Called(trace', "deleteBundle")
            /\ ~Called(trace', "Patch")]_vars

\* A run ended at a Stop that failed to shut the server down: the registry
\* is live and the bundle directory is there.
C29_Witness ==
  /\ Returned("loader")
  /\ result = "err"
  /\ Op(Last(trace)) = "Stop"
  /\ registry.state = "live"
  /\ bundleDir

\* C30: a Loader run that is invoked right after a Loader run that deleted
\* the bundle directory and returned an error (that of the label's Get or
\* Patch), or right after such a re-invocation, finds no bundle directory
\* and ends at its first call, the check of the directory, with an error: it
\* calls nothing else, pulls nothing, starts no registry and changes no
\* label, and the directory stays absent.
C30_ReinvocationFails ==
  [][(who' = "loader" /\ prev'.unlabelled) =>
       /\ ~bundleDir'
       /\ labels' = labels
       /\ registry'.state = "none"
       /\ pc' \in {"checkBundleDir", "done"}
       /\ Calls(trace', "PullImage") = <<>>
       /\ pc' = "done" =>
            /\ result' = "err"
            /\ Len(trace') = 1
            /\ Op(trace'[1]) = "checkBundleDir"
            /\ Outcome(trace'[1]) # "ok"]_vars

\* A re-invocation of the Loader after a run that deleted the bundle
\* directory and could not write its label has failed at the check: the
\* pin entry is there, the mirror entry is not, bundle-loaded is not set.
C30_Witness ==
  /\ Returned("loader")
  /\ prev.unlabelled
  /\ trace = <<Ev("checkBundleDir", "-", "fail")>>
  /\ labels[BundleLoaded] # "true"
  /\ pinConf.present
  /\ ~mirrorConf.present

\* C31: for an error of os.Stat other than ErrNotExist checkBundleDir returns
\* the error, and the step of Run that makes the check then ends the run
\* with it: on a node whose bundle directory is there a run that ends at the
\* check ended with the error of os.Stat, not with "doesn't exist", and on a
\* node without the directory the run ends at the check whatever os.Stat
\* returned; a run that ends there has made no other call, started no
\* registry and left the entries, the loaded configuration, the directory
\* and the labels as they were.
C31_StatErrorReturned ==
  [][(who = "loader" /\ pc = "checkBundleDir" /\ pc' # "checkBundleDir") =>
       /\ checkBundleDir("error").err
       /\ ~bundleDir => pc' = "done"
       /\ (bundleDir /\ pc' = "done") =>
            trace' = <<Ev("checkBundleDir", "-", "fault")>>
       /\ pc' = "done" =>
            /\ result' = "err"
            /\ Len(trace') = 1
            /\ registry' = NoRegistry
            /\ UNCHANGED <<fsVars, crioVars, apiVars>>]_vars

\* A run ended at the check of a bundle directory that is there, with pin
\* and mirror entries of an earlier run on the node.
C31_Witness ==
  /\ Returned("loader")
  /\ trace = <<Ev("checkBundleDir", "-", "fault")>>
  /\ bundleDir
  /\ pinConf.present
  /\ mirrorConf.present

\* C32: a step of a Creator run that calls writeBundle or changes the
\* archive is taken right after writeMetadata succeeded, after Stop
\* succeeded, with metadata.json there and the registry stopped; any step
\* that writes metadata.json or a file of the output directory is taken
\* after Stop succeeded; and a step in which Stop fails ends the run with an
\* error and leaves the working and the output directory as they were.
C32_ArchiveAfterStop ==
  [][who = "creator" =>
       /\ (\/ Len(Calls(trace', "writeBundle")) > Len(Calls(trace, "writeBundle"))
           \/ outDir'.bundle # outDir.bundle) =>
            /\ Op(Last(trace)) = "writeMetadata"
            /\ Outcome(Last(trace)) = "ok"
            /\ workDir.metadata.present
            /\ registry.state = "stopped"
            /\ registry' = registry
       /\ (workDir'.metadata # workDir.metadata \/ outDir' # outDir) =>
            /\ CalledOk(trace, "Stop")
            /\ registry.state = "stopped"
       /\ (/\ Len(Calls(trace', "Stop")) > Len(Calls(trace, "Stop"))
           /\ Outcome(Last(trace')) # "ok") =>
            /\ pc' = "done"
            /\ result' = "err"
            /\ workDir' = workDir
            /\ outDir' = outDir]_vars

\* A run ended at a Stop that failed to shut the server down, on a machine
\* where an earlier run had written the archive: the registry is live.
C32_Witness ==
  /\ Returned("creator")
  /\ result = "err"
  /\ Op(Last(trace)) = "Stop"
  /\ registry.state = "live"
  /\ outDir.bundle.present

\* The images the copies of a run have put into the local registry.
Stored(t) ==
  { dstRef(CreatorAddr, Arg(t[i])) :
      i \in {j \in DOMAIN t : Op(t[j]) = "downloadImage" /\ Outcome(t[j]) = "ok"} }

\* C33: when a Creator run has returned the error of a call of its copy
\* phase, its registry is live, with its private directory, Stop was not
\* called, and the working directory is there with all that the copies of
\* the run stored in it.
C33_CopyFailureLeavesAll ==
  (Returned("creator") /\ result = "err" /\ StepOf(Last(trace)) = 4) =>
    /\ CalledOk(trace, "createRegistry")
    /\ registry.state = "live"
    /\ registry.tmp
    /\ ~Called(trace, "Stop")
    /\ workDir.exists
    /\ Stored(trace) \subseteq workDir.docker

\* A run stopped at a copy that failed after the release and an image had
\* been copied.
C33_Witness ==
  /\ Returned("creator")
  /\ result = "err"
  /\ Op(Last(trace)) = "downloadImage"
  /\ Cardinality(Stored(trace)) = 2
  /\ registry.state = "live"

\* The calls of a whole Cleaner run, in order.
CleanerPlan ==
  << <<"RemoveAll", "dir">>, <<"RemoveAll", "tmp">>,
     <<"RemoveMirrorConf", "-">>, <<"RemovePinConf", "-">>,
     <<"ReloadService", "-">>, <<"Get", "-">>, <<"Patch", BundleCleaned>> >>

\* t is the first calls of the plan, all but the last of them successful.
FollowsPlan(t) ==
  /\ Len(t) <= Len(CleanerPlan)
  /\ \A i \in DOMAIN t :
       /\ <<Op(t[i]), Arg(t[i])>> = CleanerPlan[i]
       /\ i < Len(t) => Outcome(t[i]) = "ok"

\* C34: the calls of a Cleaner run are the removal of the bundle directory,
\* of "<dir>.tmp", of the mirror entry, of the pin entry, the reload, and the
\* Get and Patch of the label, in this order, each made only when all before
\* it succeeded; a call that fails ends the run with an error and the labels
\* unchanged; a step that changes a label is the Patch, after the six calls
\* before it; and a failed removal of the mirror entry leaves the pin entry
\* and what the runtime has loaded as they were.
C34_CleanerInOrder ==
  [][who' = "cleaner" =>
       /\ FollowsPlan(trace')
       /\ labels' # labels =>
            /\ Len(trace) = 6
            /\ Last(trace') = Ev("Patch", BundleCleaned, "ok")
            /\ labels' = [labels EXCEPT ![BundleCleaned] = "true"]
       /\ (Len(trace') > Len(trace) /\ Outcome(Last(trace')) # "ok") =>
            /\ pc' = "done"
            /\ result' = "err"
            /\ labels' = labels
            /\ Op(Last(trace')) = "RemoveMirrorConf" =>
                 /\ pinConf' = pinConf
                 /\ mirrorConf' = mirrorConf
                 /\ crioLoaded' = crioLoaded]_vars

\* A Cleaner run ended at a removal of the mirror entry that failed: the pin
\* entry and the mirror entry are there, and the runtime has them loaded.
C34_Witness ==
  /\ Returned("cleaner")
  /\ result = "err"
  /\ Len(trace) = 3
  /\ Op(Last(trace)) = "RemoveMirrorConf"
  /\ pinConf.present
  /\ mirrorConf.present
  /\ crioLoaded = ReloadService(pinConf, mirrorConf)
  /\ labels[BundleCleaned] # "true"

\* The references of a list, as a set.
RefSet(refs) == {refs[i] : i \in DOMAIN refs}

\* C35: on every step of a Loader run, a successful CreatePinConf leaves a pin
\* entry whose references are those of the images list read from
\* metadata.json, a successful CreateMirrorConf leaves a mirror entry with
\* the same references as the list and as the pin entry, so that the release
\* reference is pinned and mirrored exactly when the list has it; and the
\* first PullImage of the run is of the release reference.
C35_PinsAndMirrorsTheList ==
  [][(who' = "loader" /\ Len(trace') > Len(trace)) =>
       LET e == Last(trace')
           done == Outcome(e) = "ok"
       IN /\ (Op(e) = "CreatePinConf" /\ done) =>
               /\ md' = metadata'
               /\ RefSet(pinConf'.refs) = RefSet(md'.Images)
               /\ md'.Release \in RefSet(pinConf'.refs)
                    <=> md'.Release \in RefSet(md'.Images)
          /\ (Op(e) = "CreateMirrorConf" /\ done) =>
               /\ md' = metadata'
               /\ RefSet(mirrorConf'.refs) = RefSet(md'.Images)
               /\ RefSet(mirrorConf'.refs) = RefSet(pinConf'.refs)
               /\ md'.Release \in RefSet(mirrorConf'.refs)
                    <=> md'.Release \in RefSet(md'.Images)
          /\ (Op(e) = "PullImage" /\ ~Called(trace, "PullImage")) =>
               Arg(e) = md'.Release
          /\ (Op(e) = "PullImage" /\ Called(trace, "PullImage")) =>
               /\ Arg(e) = md'.Images[Len(Calls(trace, "PullImage"))]
               /\ Arg(e) \in RefSet(pinConf'.refs) \cap RefSet(mirrorConf'.refs)]_vars

\* A Loader run pinned and mirrored a list without the release reference,
\* pulled the release reference first and then an image of the list.
C35_Witness ==
  /\ who = "loader"
  /\ Len(Calls(trace, "PullImage")) = 2
  /\ Arg(Calls(trace, "PullImage")[1]) = md.Release
  /\ md.Release \notin RefSet(md.Images)
  /\ pinConf.present /\ mirrorConf.present
  /\ RefSet(pinConf.refs) = RefSet(md.Images)
  /\ RefSet(mirrorConf.refs) = RefSet(md.Images)

\* A Loader run whose list has the release reference pinned and mirrored it.
C35_WitnessListed ==
  /\ who = "loader"
  /\ Called(trace, "PullImage")
  /\ md.Release \in RefSet(md.Images)
  /\ md.Release \in RefSet(pinConf.refs) \cap RefSet(mirrorConf.refs)

\* ------------------------------------------------ every run of the tools

\* The tools run on two kinds of machine: the Loader and the Cleaner on a
\* node, the Creator on the machine that builds the bundle. A node has no
\* release discovery.
OnNode == DOMAIN discovery = {}

RunsInit == Init \/ CreatorInit

RunsNext ==
  \/ OnNode /\ Next
  \/ ~OnNode /\ CreatorNext

\* A run is between its first call and its return.
Running == who \in {"loader", "cleaner", "creator"} /\ pc \notin {"idle", "done"}

\* Every external operation returns: a run that has a call to make makes it
\* and gets its result.
RunsSpec ==
  RunsInit /\ [][RunsNext]_vars /\ WF_vars(Running /\ RunsNext)

\* The most calls a Loader run makes for n images: the thirteen calls of Run
\* outside the loop (one of them the pull of the release) and n pulls.
LoaderCalls(n) == 13 + n

\* The most calls a Creator run makes for n images: the eleven calls outside
\* the copies, the copy of the release and n copies.
CreatorCalls(n) == 11 + 1 + n

\* What bounds the calls of the run in progress.
RunBounded ==
  /\ \A i \in 1..(Len(trace) - 1) : Outcome(trace[i]) = "ok"
  /\ who = "loader" =>
       /\ Len(Calls(trace, "PullImage")) <= Len(md.Images) + 1
       /\ Len(progress) <= Len(md.Images) + 1
       /\ Len(trace) <= LoaderCalls(Len(md.Images))
  /\ who = "creator" =>
       /\ Len(Copies(trace)) <= Cardinality(DOMAIN found.images) + 1
       /\ Len(trace) <= CreatorCalls(Cardinality(DOMAIN found.images))
  /\ who = "cleaner" => Len(trace) <= Len(CleanerPlan)

\* C36: with every external operation returning, every Loader, Cleaner and
\* Creator run that has started returns, with success or with an error; no
\* call of a run follows a failed call of that run, a Loader run makes at
\* most n + 1 pulls and n + 1 progress reports for the n images of its
\* metadata, a Creator run at most n + 1 copies for the n images discovery
\* found, and the calls of a run are at most those of its straight line.
C36_RunsTerminate ==
  /\ []RunBounded
  /\ Running ~> (pc = "done" /\ result \in {"ok", "err"})

\* A Loader run returned success after the pull of the release and of
\* MaxImages images: all the calls a run can make.
C36_Witness ==
  /\ Succeeded("loader")
  /\ Len(md.Images) = MaxImages
  /\ Len(Calls(trace, "PullImage")) = MaxImages + 1
  /\ Len(trace) = LoaderCalls(MaxImages)

\* A Creator run returned success after all its copies.
C36_WitnessCreator ==
  /\ Succeeded("creator")
  /\ Len(Copies(trace)) = Cardinality(DOMAIN found.images) + 1
  /\ Len(trace) = CreatorCalls(Cardinality(DOMAIN found.images))
  /\ Cardinality(DOMAIN found.images) > 0

\* ------------------------------------------------------ dstRef on its own

\* The most source references one behaviour hands to dstRef.
MaxSources == 2

\* Source references of every shape ParseNamed tells apart, with pairs that
\* differ only in what dstRef does not use: the domain, the algorithm of the
\* digest, a digest beside the tag, a tag that reads like the hex of a digest.
References ==
  Sources \cup
  { Ref("quay.io", "ocp/b", "v1", NoDigest),
    Ref("registry.ci", "ocp/a", "", <<"sha256", "0a">>),
    Ref("quay.io", "ocp/a", "", <<"sha512", "0a">>),
    Ref("quay.io", "ocp/a", "0a", NoDigest),
    Ref("quay.io", "ocp/a", "", <<"sha256", "0c">>),
    Ref("quay.io", "ocp/c", "", NoDigest) }

\* A started registry at one of its addresses, the references to convert in
\* found.images, and no destination computed yet.
DstRefInit ==
  /\ bundleDir = FALSE
  /\ tmpDir = FALSE
  /\ metadata = NoMetadata
  /\ pinConf = NoPin
  /\ mirrorConf = NoMirror
  /\ crioLoaded = ReloadService(NoPin, NoMirror)
  /\ labels = NoLabels
  /\ annotation = <<>>
  /\ \E addr \in Addrs \cup {CreatorAddr} :
       registry = [state |-> "live", addr |-> addr, tmp |-> TRUE]
  /\ pc = "dstRef"
  /\ who = "creator"
  /\ idx = 0
  /\ nodeObject = NoNode
  /\ result = "none"
  /\ trace = <<>>
  /\ progress = <<>>
  /\ prev = NoPrev
  /\ md = NoMetadata
  /\ discovery = [digest |-> NoDigest, images |-> <<>>]
  /\ \E n \in 0..MaxSources :
       found \in [release : {NoRef}, images : [1..n -> References]]
  /\ workDir = NoWorkDir
  /\ outDir = NoOutDir
  /\ certsDir = "none"
  /\ mdValue = ZeroMetadata
  /\ mdData = NoData
  /\ mdParsed = NoParsed
  /\ builder = <<>>
  /\ reg = <<>>
  /\ heap = <<>>
  /\ caller = <<>>
  /\ disk = <<>>
  /\ task = "none"
  /\ call = <<>>

\* dstRef(src, registry) for the next reference: an error of ParseNamed is
\* returned, otherwise the destination is computed; the destinations that
\* were computed are kept in workDir.docker.
DstRefApply ==
  /\ pc = "dstRef"
  /\ idx < Len(found.images)
  /\ LET src == found.images[idx + 1]
     IN IF ParseNamed(src)
          THEN /\ trace' = Append(trace, Ev("dstRef", src, "ok"))
               /\ workDir' = [workDir EXCEPT !.docker =
                                @ \cup {dstRef(registry.addr, src)}]
          ELSE /\ trace' = Append(trace, Ev("dstRef", src, "fail"))
               /\ UNCHANGED workDir
  /\ idx' = idx + 1
  /\ UNCHANGED <<nodeVars, registryVars, jsonVars, discovery, found, outDir,
                 certsDir, registry, pc, who, result>>

DstRefNext == DstRefApply

DstRefSpec == DstRefInit /\ [][DstRefNext]_vars

\* The tag of a source reference, or else the hex of its digest.
TagOrHex(src) == IF src.tag # "" THEN src.tag ELSE Hex(src.digest)

\* The source references dstRef has converted so far.
Converted ==
  {found.images[i] : i \in {j \in 1..idx : ParseNamed(found.images[j])}}

\* C37: the destination dstRef computes for a source reference that has a
\* tag or a digest is the bound address of the registry, the path of the
\* source, and as the tag the tag of the source when it has one (also when
\* it has a digest beside it), otherwise the hex of its digest; nothing else
\* is computed, and two distinct sources with the same path and the same
\* tag-or-digest get one and the same destination.
C37_DestinationReference ==
  pc = "dstRef" =>
    /\ \A src \in Converted :
         (src.tag # "" \/ src.digest # NoDigest) =>
           /\ Ref(registry.addr, src.path, TagOrHex(src), NoDigest)
                \in workDir.docker
           /\ src.tag # "" =>
                Ref(registry.addr, src.path, src.tag, NoDigest)
                  \in workDir.docker
    /\ Cardinality(workDir.docker) <= Cardinality(Converted)
    /\ \A dst \in workDir.docker :
         /\ dst.domain = registry.addr /\ dst.digest = NoDigest
         /\ \E src \in Converted : dst.path = src.path
    /\ \A s, t \in Converted :
         ( /\ s # t /\ s.path = t.path
           /\ s.tag # "" \/ s.digest # NoDigest
           /\ t.tag # "" \/ t.digest # NoDigest
           /\ TagOrHex(s) = TagOrHex(t)
           /\ Converted = {s, t} ) => Cardinality(workDir.docker) = 1

\* A source with a tag and a digest and a distinct source with the same path
\* and tag were converted: one destination, with the tag.
C37_Witness ==
  /\ pc = "dstRef" /\ idx = 2
  /\ found.images[1] = Ref("quay.io", "ocp/b", "v1", <<"sha256", "0b">>)
  /\ found.images[2] = Ref("quay.io", "ocp/b", "v1", NoDigest)
  /\ workDir.docker = {Ref(registry.addr, "ocp/b", "v1", NoDigest)}

\* A source by digest and a source whose tag reads like that digest's hex
\* were converted: one destination.
C37_WitnessDigest ==
  /\ pc = "dstRef" /\ idx = 2
  /\ found.images[1] = Ref("registry.ci", "ocp/a", "", <<"sha256", "0a">>)
  /\ found.images[2] = Ref("quay.io", "ocp/a", "0a", NoDigest)
  /\ workDir.docker = {Ref(registry.addr, "ocp/a", "0a", NoDigest)}

====
